---- MODULE Spec2Model ----
(***************************************************************************)
(* Verification model of the evidence subsystem of uae_law_rag:            *)
(*   - pipelines/retrieval/rerank.py      (rerank engine)                  *)
(*   - utils/evidence.group_evidence_hits (evidence grouping, exercised by *)
(*     playground/fastapi_gate/retrieval_strategy/evidence_grouping_gate)  *)
(*   - utils/artifacts.py                 (page index, page-local offsets) *)
(*   - pipelines/evaluator/keyword_recall.py (recall metrics)              *)
(*   - playground/fastapi_gate/retrieval_strategy/offset_replay_gate.py    *)
(*     (citation replay check)                                             *)
(*                                                                         *)
(* Python str values that the code inspects character by character         *)
(* (strategy names: strip/lower; node ids: ordering) are sequences of      *)
(* one-character strings.  Other strings are opaque TLA+ strings.          *)
(***************************************************************************)
EXTENDS Integers, Sequences, FiniteSets, TLC

VARIABLES
    pc,          \* "input" while the caller builds the candidate list, "done" after rerank
    candidates,  \* rerank argument: sequence of Candidate
    strategy,    \* rerank argument: strategy string (or None)
    top_k,       \* rerank argument
    model,       \* rerank argument: Optional[str]
    oracle,      \* behaviour of the external reranker for this call
    result,      \* outcome of rerank: returned list or propagated exception
    gcaps,       \* group_evidence_hits arguments max_documents/max_nodes/max_pages
    hits,        \* group_evidence_hits argument: the input hit list
    evidence,    \* value returned by group_evidence_hits(hits, caps)
    cap_dropped, \* audit counter: hits group_evidence_hits discarded because of a cap
    gate_errors, \* errors list of run_gate (evidence_grouping_gate), as a set
    md_parts,    \* the pieces the document text was written from, in order
    md,          \* markdown text of the document, as a sequence of characters
    page_start,  \* the page index normalize_offsets_to_page_local built from md
    node_dicts,  \* normalize_offsets_to_page_local argument: the node dicts
    out_nodes,   \* value returned by normalize_offsets_to_page_local(node_dicts, md)
    out_again,   \* value returned by a second call, on out_nodes and the same md
    gt_nodes,    \* _MetricRaw.gt_nodes: node ids whose text contains the keyword
    kw_nodes,    \* _MetricRaw.kw_nodes: node ids the keyword recall returned
    keyword_top_k, \* _MetricRaw.keyword_top_k
    metric,      \* value returned by _calc_metric (None before the call)
    gate_result, \* what the ground-truth gate computed (None before it ran)
    page_content,\* content of the page the replay endpoint returned
    quote,       \* quote (or excerpt) of the evidence picked for the replay
    start_off,   \* start_offset of the evidence picked for the replay
    end_off,     \* end_offset of the evidence picked for the replay
    replay,      \* what the replay check computed (None before it ran)
    heap,        \* the Python objects allocated so far: object id -> contents
    heap_in,     \* the heap as it was when the first of the two calls was made
    in_nodes,    \* id of the list passed as node_dicts
    in_cands,    \* id of the list passed as candidates
    ret_nodes,   \* id of the list normalize_offsets_to_page_local returned
    ret_cands    \* id of the list rerank returned (0 when it raised)

vars == <<pc, candidates, strategy, top_k, model, oracle, result,
          gcaps, hits, evidence, cap_dropped, gate_errors,
          md_parts, md, page_start, node_dicts, out_nodes, out_again,
          gt_nodes, kw_nodes, keyword_top_k, metric, gate_result,
          page_content, quote, start_off, end_off, replay,
          heap, heap_in, in_nodes, in_cands, ret_nodes, ret_cands>>

rerankVars == <<pc, candidates, strategy, top_k, model, oracle, result>>
groupVars == <<gcaps, hits, evidence, cap_dropped, gate_errors>>
offsetVars == <<md_parts, md, page_start, node_dicts, out_nodes, out_again>>
recallVars == <<gt_nodes, kw_nodes, keyword_top_k, metric, gate_result>>
replayVars == <<page_content, quote, start_off, end_off, replay>>
frameVars == <<heap, heap_in, in_nodes, in_cands, ret_nodes, ret_cands>>

\* Optional[T]: Python None is the empty tuple, a present value x is <<x>>
None == <<>>
Some(x) == <<x>>
Val(o) == o[1]

----------------------------------------------------------------------------
(* Bounds *)

MaxCands == 3
MaxHits == 3
MaxParts == 2
MaxNodes == 2
MaxTopK == 3
MaxPieces == 2

----------------------------------------------------------------------------
(* Character-level strings *)

\* characters used by the modelled strings, in code point order
Alphabet == <<" ", "0", "1", "2", "3", "L", "M", "N", "O", "_", "a", "b", "e", "f", "g", "k", "l", "m", "n", "o", "r">>

Ord(c) == CHOOSE i \in DOMAIN Alphabet : Alphabet[i] = c

\* str.lower on one character
LowerChar(c) ==
    CASE c = "L" -> "l"
      [] c = "M" -> "m"
      [] c = "N" -> "n"
      [] c = "O" -> "o"
      [] c = "P" -> "p"
      [] c = "A" -> "a"
      [] c = "G" -> "g"
      [] c = "E" -> "e"
      [] c = "F" -> "f"
      [] c = "H" -> "h"
      [] OTHER -> c

Lower(s) == [i \in DOMAIN s |-> LowerChar(s[i])]

IsSpace(c) == c \in {" ", "\n", "\t"}

RECURSIVE LStrip(_)
LStrip(s) == IF s # <<>> /\ IsSpace(Head(s)) THEN LStrip(Tail(s)) ELSE s

RECURSIVE RStrip(_)
RStrip(s) ==
    IF s # <<>> /\ IsSpace(s[Len(s)]) THEN RStrip(SubSeq(s, 1, Len(s) - 1)) ELSE s

\* str.strip
Strip(s) == RStrip(LStrip(s))

Min(a, b) == IF a <= b THEN a ELSE b

\* Python str "<": lexicographic by code point, a proper prefix is smaller
StrLess(a, b) ==
    \E i \in 1..(Min(Len(a), Len(b)) + 1) :
        /\ \A j \in 1..(i - 1) : a[j] = b[j]
        /\ \/ i > Len(a) /\ i <= Len(b)
           \/ i <= Len(a) /\ i <= Len(b) /\ Ord(a[i]) < Ord(b[i])

----------------------------------------------------------------------------
(* rerank.py *)

S_none == <<"n", "o", "n", "e">>
S_llm == <<"l", "l", "m">>
S_bge == <<"b", "g", "e", "_", "r", "e", "r", "a", "n", "k", "e", "r">>

\* strategy selectors a caller may pass
StrategyInputs ==
    { Some(S_none), Some(S_bge),
      Some(<<" ", "L", "L", "M", " ">>),
      Some(<<"N", "O", "N", "e">>),
      Some(<<"f", "o", "o">>),
      None }

\* variant of _normalize_strategy that forgets to flag an unknown name
_normalize_strategy_NoFlag(st) ==
    LET s == Lower(Strip(IF st = None THEN <<>> ELSE Val(st)))
    IN  IF s \in {S_none, S_llm, S_bge} THEN <<s, FALSE>> ELSE <<S_none, FALSE>>

\* _normalize_strategy: <<normalized, fallback>>; str(strategy or "") maps None to ""
_normalize_strategy(st) ==
    LET s == Lower(Strip(IF st = None THEN <<>> ELSE Val(st)))
    IN  IF s \in {S_none, S_llm, S_bge} THEN <<s, FALSE>> ELSE <<S_none, TRUE>>

_TEXT_KEYS == <<"text", "content", "node_text", "chunk_text", "raw_text", "page_text">>

\* a str value is blank when strip() leaves nothing
IsBlank(s) == Strip(s) = <<>>

\* meta without any of the text keys: meta.get(key) is None for each of them
NoMeta == [k \in {_TEXT_KEYS[i] : i \in DOMAIN _TEXT_KEYS} |-> None]

\* variant of _extract_text that takes the last non-blank meta text
_extract_text_LastKey(cand) ==
    IF cand.excerpt # None /\ ~IsBlank(Val(cand.excerpt))
    THEN <<Val(cand.excerpt), Some(<<"excerpt">>)>>
    ELSE LET ks == {i \in DOMAIN _TEXT_KEYS :
                        /\ cand.meta[_TEXT_KEYS[i]] # None
                        /\ ~IsBlank(Val(cand.meta[_TEXT_KEYS[i]]))}
         IN  IF ks = {} THEN <<<<>>, None>>
             ELSE LET k == CHOOSE i \in ks : \A j \in ks : i >= j
                  IN  <<Val(cand.meta[_TEXT_KEYS[k]]), Some(<<"meta", _TEXT_KEYS[k]>>)>>

\* _extract_text: <<text, source>>; text = <<>> when the candidate has none.
\* cand.meta[key] is meta.get(key): None when the key is absent or not a str.
\* The source is <<"excerpt">>, or <<"meta", key>> for f"meta.{key}".
_extract_text(cand) ==
    IF cand.excerpt # None /\ ~IsBlank(Val(cand.excerpt))
    THEN <<Val(cand.excerpt), Some(<<"excerpt">>)>>
    ELSE LET ks == {i \in DOMAIN _TEXT_KEYS :
                        /\ cand.meta[_TEXT_KEYS[i]] # None
                        /\ ~IsBlank(Val(cand.meta[_TEXT_KEYS[i]]))}
         IN  IF ks = {} THEN <<<<>>, None>>
             ELSE LET k == CHOOSE i \in ks : \A j \in ks : i <= j
                  IN  <<Val(cand.meta[_TEXT_KEYS[k]]), Some(<<"meta", _TEXT_KEYS[k]>>)>>

\* variant of KeyLess that sorts on the score alone
KeyLess_ScoreOnly(k1, k2) == k1[1] < k2[1]

\* sort key comparison of Python tuples (-score, node_id)
KeyLess(k1, k2) ==
    \/ k1[1] < k2[1]
    \/ k1[1] = k2[1] /\ StrLess(k1[2], k2[2])

\* insert item x into a key-sorted sequence after every element that is not greater
RECURSIVE InsertByKey(_, _)
InsertByKey(sorted, x) ==
    IF sorted = <<>> THEN <<x>>
    ELSE IF KeyLess(x.key, Head(sorted).key) THEN <<x>> \o sorted
    ELSE <<Head(sorted)>> \o InsertByKey(Tail(sorted), x)

\* Python sorted(items, key=...): stable
RECURSIVE SortedByKey(_)
SortedByKey(items) ==
    IF items = <<>> THEN <<>>
    ELSE InsertByKey(SortedByKey(SubSeq(items, 1, Len(items) - 1)), items[Len(items)])

\* _stable_sort: enumerate, then sort by (-score, node_id)
_stable_sort(cands) ==
    SortedByKey([i \in DOMAIN cands |->
        [idx |-> i, cand |-> cands[i], key |-> <<-(cands[i].score), cands[i].node_id>>]])

\* _build_reranker: [exc, reranker, model_name]; exc is the class of the exception
\* raised by the import or by the reranker constructor, None when it returns
_build_reranker(st, mdl, k, orc) ==
    IF orc.build # "ok" THEN [exc |-> Some(orc.build), reranker |-> None, model_name |-> "none"]
    ELSE IF st = S_bge
    THEN [exc |-> None, reranker |-> Some("SentenceTransformerRerank"),
          model_name |-> IF mdl = None THEN "BAAI/bge-reranker-large" ELSE Val(mdl)]
    ELSE IF st = S_llm
    THEN [exc |-> None, reranker |-> Some("LLMRerank"),
          model_name |-> IF mdl = None THEN "llm" ELSE Val(mdl)]
    ELSE [exc |-> None, reranker |-> None, model_name |-> "none"]

\* indices of the candidates that have text, i.e. the nodes handed to the reranker
TextNodes(cands) == {i \in DOMAIN cands : _extract_text(cands[i])[1] # <<>>}

\* variant of _run_rerank that gives score 0 to the nodes the reranker left out
_run_rerank_DefaultScores(cands, orc) ==
    LET nodes == TextNodes(cands)
    IN  IF nodes = {} THEN [exc |-> None, scores |-> <<>>]
        ELSE IF orc.run # "ok" THEN [exc |-> Some(orc.run), scores |-> <<>>]
        ELSE [exc |-> None,
              scores |-> [i \in nodes |-> IF orc.scores[i] # None THEN Val(orc.scores[i]) ELSE 0]]

\* _run_rerank: [exc, scores]; scores is the dict {candidate_index: rerank_score}.
\* orc.scores[i] is the score postprocess_nodes gives node i, None when it does
\* not return the node; orc.run = "raise" when postprocess_nodes raises.
_run_rerank(cands, orc) ==
    LET nodes == TextNodes(cands)
    IN  IF nodes = {} THEN [exc |-> None, scores |-> <<>>]
        ELSE IF orc.run # "ok" THEN [exc |-> Some(orc.run), scores |-> <<>>]
        ELSE LET got == {i \in nodes : orc.scores[i] # None}
             IN  [exc |-> None, scores |-> [i \in got |-> Val(orc.scores[i])]]

\* str(model or "none")
ModelOr(mdl, dflt) == IF mdl = None THEN dflt ELSE Val(mdl)

\* the Candidate _apply_rerank_result builds for the item at position rank
RerankedCandidate(item, rank, scores, strat, mdl, fallback, fallback_reason, stg) ==
    LET idx == item.idx
        cand == item.cand
        applied == idx \in DOMAIN scores
    IN  [node_id |-> cand.node_id,
         stage |-> stg,
         score |-> IF applied THEN scores[idx] ELSE cand.score,
         score_details |->
             [rerank_applied |-> applied,
              rerank_score |-> IF applied THEN Some(scores[idx]) ELSE None,
              rerank_strategy |-> strat,
              rerank_model |-> mdl,
              rerank_rank |-> rank,
              rerank_fallback |-> fallback,
              rerank_fallback_reason |-> fallback_reason] @@ cand.score_details,
         excerpt |-> cand.excerpt,
         meta |-> cand.meta]

\* variant of _apply_rerank_result without the top_k cut
_apply_rerank_result_NoTruncate(ordered, scores, strat, mdl, fallback, fallback_reason, k) ==
    [rank \in 1..Len(ordered) |->
        RerankedCandidate(ordered[rank], rank, scores, strat, mdl, fallback,
                          fallback_reason, "rerank")]

\* variant of _apply_rerank_result that passes the input stage through
_apply_rerank_result_KeepStage(ordered, scores, strat, mdl, fallback, fallback_reason, k) ==
    [rank \in 1..Min(IF k < 0 THEN 0 ELSE k, Len(ordered)) |->
        RerankedCandidate(ordered[rank], rank, scores, strat, mdl, fallback,
                          fallback_reason, ordered[rank].cand.stage)]

\* variant of _apply_rerank_result that numbers the ranks from 0
_apply_rerank_result_ZeroBased(ordered, scores, strat, mdl, fallback, fallback_reason, k) ==
    [rank \in 1..Min(IF k < 0 THEN 0 ELSE k, Len(ordered)) |->
        RerankedCandidate(ordered[rank], rank - 1, scores, strat, mdl, fallback,
                          fallback_reason, "rerank")]

\* _apply_rerank_result: new Candidate per ordered item, truncated to top_k
_apply_rerank_result(ordered, scores, strat, mdl, fallback, fallback_reason, k) ==
    [rank \in 1..Min(IF k < 0 THEN 0 ELSE k, Len(ordered)) |->
        RerankedCandidate(ordered[rank], rank, scores, strat, mdl, fallback,
                          fallback_reason, "rerank")]

\* iteration over set(scores.keys()): ascending for the small ints used as indices
RECURSIVE SetToSeq(_)
SetToSeq(S) ==
    IF S = {} THEN <<>>
    ELSE LET m == CHOOSE x \in S : \A y \in S : x <= y
         IN  <<m>> \o SetToSeq(S \ {m})

Returned(out) == [status |-> "returned", out |-> out, exc |-> None]
Raised(exc) == [status |-> "raised", out |-> <<>>, exc |-> exc]

\* f"rerank_import_error:{exc.__class__.__name__}"
ImportErrorReason(exc) ==
    CASE exc = "ImportError" -> "rerank_import_error:ImportError"
      [] exc = "ValueError" -> "rerank_import_error:ValueError"
      [] OTHER -> "rerank_import_error:Exception"

\* variant of Ordered that puts the candidates without a rerank score first
Ordered_RemainingFirst(reranked, remaining) ==
    SortedByKey(remaining) \o SortedByKey(reranked)

\* ordered = sorted(reranked, key=...); ordered.extend(sorted(remaining, key=...))
Ordered(reranked, remaining) ==
    SortedByKey(reranked) \o SortedByKey(remaining)

\* the arguments with which rerank calls _apply_rerank_result
ApplyArgs(ordered, scores, strat, mdl, fallback, fallback_reason, k) ==
    [status |-> "apply", ordered |-> ordered, scores |-> scores, strategy |-> strat,
     model |-> mdl, fallback |-> fallback, fallback_reason |-> fallback_reason,
     top_k |-> k]

\* rerank up to its return statement: "empty" for the early return [],
\* "raised" with the exception that escapes, or the _apply_rerank_result call
\* whose value it returns
rerank_return(cands, st, k, mdl, orc) ==
    IF k <= 0 \/ cands = <<>> THEN [status |-> "empty"]
    ELSE
    LET norm == _normalize_strategy(st)
        normalized == norm[1]
        fallback == norm[2]
    IN  IF normalized = S_none
        THEN ApplyArgs(_stable_sort(cands), <<>>, normalized,
                                           ModelOr(mdl, "none"), fallback, None, k)
        ELSE
        LET built == _build_reranker(normalized, mdl, k, orc)
        IN  IF built.exc # None
            THEN ApplyArgs(_stable_sort(cands), <<>>, S_none,
                              ModelOr(mdl, "none"), TRUE,
                              Some(ImportErrorReason(Val(built.exc))), k)
            ELSE IF built.reranker = None
            THEN ApplyArgs(_stable_sort(cands), <<>>, S_none,
                              ModelOr(mdl, "none"), TRUE, Some("reranker_unavailable"), k)
            ELSE
            LET ran == _run_rerank(cands, orc)
                scores == ran.scores
            IN  IF ran.exc # None THEN [status |-> "raised", exc |-> ran.exc]
                ELSE IF DOMAIN scores = {}
                THEN ApplyArgs(_stable_sort(cands), <<>>, S_none,
                                  ModelOr(mdl, built.model_name), TRUE,
                                  Some("rerank_no_text"), k)
                ELSE
                LET reranked_idx == DOMAIN scores
                    order == SetToSeq(reranked_idx)
                    reranked == [j \in DOMAIN order |->
                        [idx |-> order[j], cand |-> cands[order[j]],
                         key |-> <<-(scores[order[j]]), cands[order[j]].node_id>>]]
                    rest == SetToSeq(DOMAIN cands \ reranked_idx)
                    remaining == [j \in DOMAIN rest |->
                        [idx |-> rest[j], cand |-> cands[rest[j]],
                         key |-> <<-(cands[rest[j]].score), cands[rest[j]].node_id>>]]
                    ordered == Ordered(reranked, remaining)
                IN  ApplyArgs(ordered, scores, normalized,
                                 ModelOr(mdl, built.model_name), fallback, None, k)

\* rerank
rerank(cands, st, k, mdl, orc) ==
    LET ret == rerank_return(cands, st, k, mdl, orc)
    IN  IF ret.status = "empty" THEN Returned(<<>>)
        ELSE IF ret.status = "raised" THEN Raised(ret.exc)
        ELSE Returned(_apply_rerank_result(ret.ordered, ret.scores, ret.strategy,
                          ret.model, ret.fallback, ret.fallback_reason, ret.top_k))

----------------------------------------------------------------------------
(* utils/evidence.py: group_evidence_hits, and its gate *)

\* dict helpers: a dict is a function, {} is the function with empty domain
DictGet(d, k, dflt) == IF k \in DOMAIN d THEN d[k] ELSE dflt
DictPut(d, k, v) == [x \in DOMAIN d \cup {k} |-> IF x = k THEN v ELSE d[x]]

\* str(page) for a one-digit page number
Digits == <<"0", "1", "2", "3", "4", "5", "6", "7", "8", "9">>
PageStr(n) == Digits[n + 1]

\* page_key: the stringified page number, "_" when the page is unknown
PageKey(h) == IF h.page = None THEN "_" ELSE PageStr(Val(h.page))

ZeroStats ==
    [total_hits_in |-> 0, total_hits_used |-> 0,
     dropped_missing_node_id |-> 0, dropped_missing_document_id |-> 0,
     unknown_page_count |-> 0, deduped_node_count |-> 0]

EmptyEvidence ==
    [document_ids |-> <<>>, by_source |-> <<>>, meta |-> [stats |-> ZeroStats]]

InSeq(x, seq) == \E i \in DOMAIN seq : seq[i] = x

\* the page buckets of one (source, document) pair
PairPages(ev, source, doc) ==
    LET src == DictGet(ev.by_source, source, [by_document |-> <<>>])
    IN  DictGet(src.by_document, doc, [pages |-> <<>>]).pages

RECURSIVE SumOver(_, _)
SumOver(f, S) ==
    IF S = {} THEN 0
    ELSE LET x == CHOOSE y \in S : TRUE IN f[x] + SumOver(f, S \ {x})

\* number of node ids a pair holds across its page buckets
PairNodeCount(pages) == SumOver([k \in DOMAIN pages |-> Len(pages[k])], DOMAIN pages)

\* number of numbered page buckets a pair has opened
PairNumberedPages(pages) == Cardinality(DOMAIN pages \ {"_"})

\* variant of PlaceNode that puts the new node id at the front of its bucket
PlaceNode_Prepend(ev, source, doc, key, node_id) ==
    LET src == DictGet(ev.by_source, source, [by_document |-> <<>>])
        d == DictGet(src.by_document, doc, [pages |-> <<>>])
        bucket == DictGet(d.pages, key, <<>>)
        d2 == [pages |-> DictPut(d.pages, key, <<node_id>> \o bucket)]
        src2 == [by_document |-> DictPut(src.by_document, doc, d2)]
    IN  DictPut(ev.by_source, source, src2)

\* place node_id into the (source, document, page_key) bucket
PlaceNode(ev, source, doc, key, node_id) ==
    LET src == DictGet(ev.by_source, source, [by_document |-> <<>>])
        d == DictGet(src.by_document, doc, [pages |-> <<>>])
        bucket == DictGet(d.pages, key, <<>>)
        d2 == [pages |-> DictPut(d.pages, key, Append(bucket, node_id))]
        src2 == [by_document |-> DictPut(src.by_document, doc, d2)]
    IN  DictPut(ev.by_source, source, src2)

Bump(ev, counter) ==
    [ev EXCEPT !.meta.stats[counter] = @ + 1]

\* variant of GroupHit that counts an in-bucket repeat as a used hit
GroupHit_RepeatUsed(acc, h, caps) ==
    LET ev == Bump(acc.ev, "total_hits_in")
        pages == PairPages(ev, h.source, h.document_id)
        key == PageKey(h)
    IN  IF h.node_id = ""
        THEN [acc EXCEPT !.ev = Bump(ev, "dropped_missing_node_id")]
        ELSE IF h.document_id = ""
        THEN [acc EXCEPT !.ev = Bump(ev, "dropped_missing_document_id")]
        ELSE IF ~InSeq(h.document_id, ev.document_ids)
                /\ Len(ev.document_ids) >= caps.max_documents
        THEN [ev |-> ev, cap_dropped |-> acc.cap_dropped + 1]
        ELSE
        LET ev1 == IF InSeq(h.document_id, ev.document_ids) THEN ev
                   ELSE [ev EXCEPT !.document_ids = Append(@, h.document_id)]
            ev2 == IF h.page = None THEN Bump(ev1, "unknown_page_count") ELSE ev1
        IN  IF key \in DOMAIN pages /\ InSeq(h.node_id, pages[key])
            THEN [acc EXCEPT !.ev = Bump(Bump(ev2, "deduped_node_count"), "total_hits_used")]
            ELSE IF PairNodeCount(pages) >= caps.max_nodes_per_document
            THEN [ev |-> ev2, cap_dropped |-> acc.cap_dropped + 1]
            ELSE IF key \notin DOMAIN pages /\ key # "_"
                    /\ PairNumberedPages(pages) >= caps.max_pages_per_document
            THEN [ev |-> ev2, cap_dropped |-> acc.cap_dropped + 1]
            ELSE [acc EXCEPT !.ev =
                     [Bump(ev2, "total_hits_used") EXCEPT
                         !.by_source = PlaceNode(ev2, h.source, h.document_id, key, h.node_id)]]

\* variant of GroupHit that opens page buckets without looking at the page cap
GroupHit_NoPageCap(acc, h, caps) ==
    LET ev == Bump(acc.ev, "total_hits_in")
        pages == PairPages(ev, h.source, h.document_id)
        key == PageKey(h)
    IN  IF h.node_id = ""
        THEN [acc EXCEPT !.ev = Bump(ev, "dropped_missing_node_id")]
        ELSE IF h.document_id = ""
        THEN [acc EXCEPT !.ev = Bump(ev, "dropped_missing_document_id")]
        ELSE IF ~InSeq(h.document_id, ev.document_ids)
                /\ Len(ev.document_ids) >= caps.max_documents
        THEN [ev |-> ev, cap_dropped |-> acc.cap_dropped + 1]
        ELSE
        LET ev1 == IF InSeq(h.document_id, ev.document_ids) THEN ev
                   ELSE [ev EXCEPT !.document_ids = Append(@, h.document_id)]
            ev2 == IF h.page = None THEN Bump(ev1, "unknown_page_count") ELSE ev1
        IN  IF key \in DOMAIN pages /\ InSeq(h.node_id, pages[key])
            THEN [acc EXCEPT !.ev = Bump(ev2, "deduped_node_count")]
            ELSE IF PairNodeCount(pages) >= caps.max_nodes_per_document
            THEN [ev |-> ev2, cap_dropped |-> acc.cap_dropped + 1]
            ELSE [acc EXCEPT !.ev =
                     [Bump(ev2, "total_hits_used") EXCEPT
                         !.by_source = PlaceNode(ev2, h.source, h.document_id, key, h.node_id)]]

\* one iteration of the loop over hits: acc = [ev, cap_dropped]
GroupHit(acc, h, caps) ==
    LET ev == Bump(acc.ev, "total_hits_in")
        pages == PairPages(ev, h.source, h.document_id)
        key == PageKey(h)
    IN  IF h.node_id = ""
        THEN [acc EXCEPT !.ev = Bump(ev, "dropped_missing_node_id")]
        ELSE IF h.document_id = ""
        THEN [acc EXCEPT !.ev = Bump(ev, "dropped_missing_document_id")]
        ELSE IF ~InSeq(h.document_id, ev.document_ids)
                /\ Len(ev.document_ids) >= caps.max_documents
        THEN [ev |-> ev, cap_dropped |-> acc.cap_dropped + 1]
        ELSE
        LET ev1 == IF InSeq(h.document_id, ev.document_ids) THEN ev
                   ELSE [ev EXCEPT !.document_ids = Append(@, h.document_id)]
            ev2 == IF h.page = None THEN Bump(ev1, "unknown_page_count") ELSE ev1
        IN  IF key \in DOMAIN pages /\ InSeq(h.node_id, pages[key])
            THEN [acc EXCEPT !.ev = Bump(ev2, "deduped_node_count")]
            ELSE IF PairNodeCount(pages) >= caps.max_nodes_per_document
            THEN [ev |-> ev2, cap_dropped |-> acc.cap_dropped + 1]
            ELSE IF key \notin DOMAIN pages /\ key # "_"
                    /\ PairNumberedPages(pages) >= caps.max_pages_per_document
            THEN [ev |-> ev2, cap_dropped |-> acc.cap_dropped + 1]
            ELSE [acc EXCEPT !.ev =
                     [Bump(ev2, "total_hits_used") EXCEPT
                         !.by_source = PlaceNode(ev2, h.source, h.document_id, key, h.node_id)]]

RECURSIVE GroupFold(_, _)
GroupFold(hs, caps) ==
    IF hs = <<>> THEN [ev |-> EmptyEvidence, cap_dropped |-> 0]
    ELSE GroupHit(GroupFold(SubSeq(hs, 1, Len(hs) - 1), caps), hs[Len(hs)], caps)

\* variant that carries the hits' content text in the output, under meta
group_evidence_hits_WithContent(hs, caps) ==
    [GroupFold(hs, caps).ev EXCEPT
        !.meta = [stats |-> @.stats, content |-> [i \in 1..Len(hs) |-> hs[i].content]]]

\* group_evidence_hits(hits, max_documents=, max_nodes_per_document=, max_pages_per_document=)
group_evidence_hits(hs, caps) == GroupFold(hs, caps).ev

\* evidence_grouping_gate.py
DEFAULT_MAX_DOCUMENTS == 2
DEFAULT_MAX_NODES_PER_DOCUMENT == 4
DEFAULT_MAX_PAGES_PER_DOCUMENT == 2

\* a raw hit; excerpt and content are None when the hit carries no such key
Hit(n, d, p, s, f) ==
    [node_id |-> n, document_id |-> d, page |-> p, source |-> s, file_id |-> f,
     excerpt |-> None, content |-> None]

\* variant of the fixture without the repeated n2 hit
_build_hits_NoRepeat ==
    << Hit("n1", "doc1", Some(1), "keyword", "f1"),
       Hit("n2", "doc1", Some(1), "keyword", "f1"),
       Hit("n3", "doc1", Some(2), "keyword", "f1"),
       Hit("n8", "doc1", None, "keyword", "f1"),
       Hit("n9", "doc1", Some(2), "keyword", "f1"),
       Hit("n4", "doc2", Some(1), "reranked", "f2"),
       Hit("n5", "doc2", Some(2), "reranked", "f2"),
       Hit("n6", "doc2", Some(3), "reranked", "f2"),
       Hit("n7", "doc3", Some(1), "keyword", "f3"),
       Hit("n_missing_doc", "", Some(1), "keyword", "f1"),
       Hit("", "doc1", Some(1), "keyword", "f1") >>

\* variant of the fixture in which the n9 hit precedes the n8 hit
_build_hits_NinthBeforeEighth ==
    << Hit("n1", "doc1", Some(1), "keyword", "f1"),
       Hit("n2", "doc1", Some(1), "keyword", "f1"),
       Hit("n2", "doc1", Some(1), "keyword", "f1"),
       Hit("n3", "doc1", Some(2), "keyword", "f1"),
       Hit("n9", "doc1", Some(2), "keyword", "f1"),
       Hit("n8", "doc1", None, "keyword", "f1"),
       Hit("n4", "doc2", Some(1), "reranked", "f2"),
       Hit("n5", "doc2", Some(2), "reranked", "f2"),
       Hit("n6", "doc2", Some(3), "reranked", "f2"),
       Hit("n7", "doc3", Some(1), "keyword", "f3"),
       Hit("n_missing_doc", "", Some(1), "keyword", "f1"),
       Hit("", "doc1", Some(1), "keyword", "f1") >>

_build_hits ==
    << Hit("n1", "doc1", Some(1), "keyword", "f1"),
       Hit("n2", "doc1", Some(1), "keyword", "f1"),
       Hit("n2", "doc1", Some(1), "keyword", "f1"),
       Hit("n3", "doc1", Some(2), "keyword", "f1"),
       Hit("n8", "doc1", None, "keyword", "f1"),
       Hit("n9", "doc1", Some(2), "keyword", "f1"),
       Hit("n4", "doc2", Some(1), "reranked", "f2"),
       Hit("n5", "doc2", Some(2), "reranked", "f2"),
       Hit("n6", "doc2", Some(3), "reranked", "f2"),
       Hit("n7", "doc3", Some(1), "keyword", "f3"),
       Hit("n_missing_doc", "", Some(1), "keyword", "f1"),
       Hit("", "doc1", Some(1), "keyword", "f1") >>

\* _has_forbidden_keys(payload, forbidden): some dict of the evidence tree, at
\* any depth, has a key in forbidden; lists (document_ids, the buckets) hold
\* strings, which have no keys
_has_forbidden_keys(payload, forbidden) ==
    LET by_source == payload.by_source
        Docs(s) == by_source[s].by_document
        keys ==
            DOMAIN payload \cup DOMAIN payload.meta \cup DOMAIN payload.meta.stats
            \cup DOMAIN by_source
            \cup UNION {DOMAIN by_source[s] : s \in DOMAIN by_source}
            \cup UNION {DOMAIN Docs(s) : s \in DOMAIN by_source}
            \cup UNION {UNION {DOMAIN Docs(s)[d] : d \in DOMAIN Docs(s)} : s \in DOMAIN by_source}
            \cup UNION {UNION {DOMAIN Docs(s)[d].pages : d \in DOMAIN Docs(s)} :
                            s \in DOMAIN by_source}
    IN  keys \cap forbidden # {}

\* the checks run_gate makes on the evidence; each failed check adds an error
run_gate_errors(ev, caps) ==
    LET by_source == ev.by_source
        by_doc(src) == DictGet(by_source, src, [by_document |-> <<>>]).by_document
        pages_doc2 == DictGet(by_doc("reranked"), "doc2", [pages |-> <<>>]).pages
        pages_doc1 == DictGet(by_doc("keyword"), "doc1", [pages |-> <<>>]).pages
        stats == ev.meta.stats
        Err(cond, name) == IF cond THEN {name} ELSE {}
    IN  Err(ev.document_ids # <<"doc1", "doc2">>, "document_ids mismatch")
        \cup Err(DOMAIN by_source = {}, "by_source missing or not a dict")
        \cup Err(DOMAIN by_source # {} /\ ~({"keyword", "reranked"} \subseteq DOMAIN by_source),
                 "by_source missing expected sources")
        \cup Err(_has_forbidden_keys(ev, {"excerpt", "content"}),
                 "evidence contains forbidden keys: excerpt/content")
        \cup Err(Cardinality(DOMAIN pages_doc2) > caps.max_pages_per_document,
                 "pages cap not enforced")
        \cup Err("3" \in DOMAIN pages_doc2, "page 3 should be capped out for doc2")
        \cup Err(DictGet(pages_doc1, "1", <<>>) # <<"n1", "n2">>, "node order mismatch for doc1/page1")
        \cup Err(DictGet(pages_doc1, "2", <<>>) # <<"n3">>, "node cap not enforced for doc1/page2")
        \cup Err(DictGet(pages_doc1, "_", <<>>) # <<"n8">>, "unknown page bucket mismatch")
        \cup Err("doc3" \in DOMAIN by_doc("keyword"), "max_documents cap not enforced")
        \cup Err(stats.dropped_missing_document_id # 1, "dropped_missing_document_id mismatch")
        \cup Err(stats.dropped_missing_node_id # 1, "dropped_missing_node_id mismatch")
        \cup Err(stats.unknown_page_count # 1, "unknown_page_count mismatch")
        \cup Err(stats.deduped_node_count # 1, "deduped_node_count mismatch")
        \cup Err(stats.total_hits_in # 12, "total_hits_in mismatch")
        \cup Err(stats.total_hits_used # 6, "total_hits_used mismatch")

----------------------------------------------------------------------------
(* Inputs of rerank *)

ScoreValues == {1, 2}
TopKValues == {0, 1, 2}
ModelInputs == {None, Some("m")}

Cand(n, sc, ex) ==
    [node_id |-> n, stage |-> "fused", score |-> sc,
     score_details |-> [fusion_rank |-> 1], excerpt |-> ex, meta |-> NoMeta]

\* a candidate whose meta holds the str values mt under some of the text keys
CandMeta(n, sc, ex, mt) ==
    [Cand(n, sc, ex) EXCEPT !.meta = mt @@ NoMeta]

\* fused candidates with the node ids "n10" and "n2" ("n10" < "n2" as strings
\* although 2 < 10 as numbers): one with an excerpt only, one with an excerpt and a meta
\* text, one with a blank excerpt, a blank meta content and two later meta
\* texts, and two without any text
CandidateInputs ==
    {Cand(<<"n", "1", "0">>, 1, Some(<<"a">>))}
    \cup {CandMeta(<<"n", "2">>, 2, Some(<<"a">>), [text |-> Some(<<"c">>)]),
          CandMeta(<<"n", "1", "0">>, 2, Some(<<" ">>),
                   [content |-> Some(<<" ">>), node_text |-> Some(<<"b">>),
                    page_text |-> Some(<<"c">>)])}
    \cup {Cand(<<"n", "1", "0">>, 1, None), Cand(<<"n", "2">>, 2, None)}

NoScores(cands) == [i \in DOMAIN cands |-> None]

\* the reranker is not reached: nothing about it is observed
NoOracle(cands) == [build |-> "ok", run |-> "ok", scores |-> NoScores(cands)]

\* what the external reranker can do during one call: fail at import or
\* construction, fail (raise, time out) inside postprocess_nodes, or return a
\* score for some of the nodes it was given
OracleOutcomes(cands) ==
    {[build |-> b, run |-> "ok", scores |-> NoScores(cands)] : b \in {"ImportError", "ValueError"}}
    \cup {[build |-> "ok", run |-> r, scores |-> NoScores(cands)] : r \in {"RuntimeError", "TimeoutError"}}
    \cup {[build |-> "ok", run |-> "ok", scores |-> f] :
             f \in {g \in [DOMAIN cands -> {None} \cup {Some(v) : v \in ScoreValues}] :
                        \A i \in DOMAIN cands : i \notin TextNodes(cands) => g[i] = None}}

ReachesOracle(cands, st, k) ==
    k > 0 /\ cands # <<>> /\ _normalize_strategy(st)[1] # S_none

Pending == [status |-> "pending", out |-> <<>>, exc |-> None]

InitGroup ==
    /\ gcaps = [max_documents |-> 0, max_nodes_per_document |-> 0, max_pages_per_document |-> 0]
    /\ hits = <<>>
    /\ evidence = EmptyEvidence
    /\ cap_dropped = 0
    /\ gate_errors = {}

InitRerank ==
    /\ pc = "input"
    /\ candidates = <<>>
    /\ strategy = None
    /\ top_k = 0
    /\ model = None
    /\ oracle = NoOracle(<<>>)
    /\ result = Pending

InitOffsets ==
    /\ md_parts = <<>>
    /\ md = <<>>
    /\ page_start = <<>>
    /\ node_dicts = <<>>
    /\ out_nodes = <<>>
    /\ out_again = <<>>

InitRecall ==
    /\ gt_nodes = {}
    /\ kw_nodes = {}
    /\ keyword_top_k = 0
    /\ metric = None
    /\ gate_result = None

InitReplay ==
    /\ page_content = <<>>
    /\ quote = <<>>
    /\ start_off = 0
    /\ end_off = 0
    /\ replay = None

\* the two argument lists exist and are empty; no call was made
InitFrame ==
    /\ heap = << [items |-> <<>>], [items |-> <<>>] >>
    /\ heap_in = <<>>
    /\ in_nodes = 1
    /\ in_cands = 2
    /\ ret_nodes = <<>>
    /\ ret_cands = <<>>

Init == InitRerank /\ InitGroup /\ InitOffsets /\ InitRecall /\ InitReplay /\ InitFrame

\* the caller appends one fused candidate to the list it will pass to rerank
AddCandidate ==
    /\ pc = "input"
    /\ Len(candidates) < MaxCands
    /\ \E c \in CandidateInputs : candidates' = Append(candidates, c)
    /\ UNCHANGED <<pc, strategy, top_k, model, oracle, result>>
    /\ UNCHANGED <<groupVars, offsetVars, recallVars, replayVars, frameVars>>

\* one call rerank(query, candidates, strategy, top_k, model)
Rerank ==
    /\ pc = "input"
    /\ \E st \in StrategyInputs, k \in TopKValues, mdl \in ModelInputs :
        \E orc \in IF ReachesOracle(candidates, st, k)
                    THEN OracleOutcomes(candidates) ELSE {NoOracle(candidates)} :
            /\ strategy' = st
            /\ top_k' = k
            /\ model' = mdl
            /\ oracle' = orc
            /\ result' = rerank(candidates, st, k, mdl, orc)
    /\ pc' = "done"
    /\ UNCHANGED candidates
    /\ UNCHANGED <<groupVars, offsetVars, recallVars, replayVars, frameVars>>

Next == AddCandidate \/ Rerank

Spec == Init /\ [][Next]_vars

----------------------------------------------------------------------------
(* Inputs of group_evidence_hits *)

Caps(d, n, p) ==
    [max_documents |-> d, max_nodes_per_document |-> n, max_pages_per_document |-> p]

\* cap settings: each cap takes the values 1 and 2, and every pair of values of
\* two caps occurs together
CapSettings == {Caps(1, 1, 1), Caps(1, 2, 2), Caps(2, 1, 2), Caps(2, 2, 1)}

\* a raw hit that carries passage text under excerpt and content
TextHit(n, d, p, s, f) ==
    [Hit(n, d, p, s, f) EXCEPT !.excerpt = Some("passage"), !.content = Some("passage")]

\* raw hits: well-formed ones (the reranked ones carry passage text), one
\* without node_id, one without document_id
HitInputs ==
    {Hit(n, d, p, "keyword", "f1") : n \in {"n1", "n2"}, d \in {"doc1", "doc2"},
                                     p \in {None, Some(1), Some(2)}}
    \cup {TextHit(n, "doc1", p, "reranked", "f1") : n \in {"n1", "n2"}, p \in {None, Some(1)}}
    \cup {Hit("", "doc1", Some(1), "keyword", "f1"), Hit("n1", "", Some(1), "keyword", "f1")}

\* the caller appends one raw hit to the list it will pass to group_evidence_hits
AddHit ==
    /\ pc = "input"
    /\ Len(hits) < MaxHits
    /\ \E h \in HitInputs : hits' = Append(hits, h)
    /\ UNCHANGED <<pc, gcaps, evidence, cap_dropped, gate_errors>>
    /\ UNCHANGED <<candidates, strategy, top_k, model, oracle, result>>
    /\ UNCHANGED <<offsetVars, recallVars, replayVars, frameVars>>

\* one call group_evidence_hits(hits, max_documents=, max_nodes_per_document=,
\* max_pages_per_document=)
GroupEvidence ==
    /\ pc = "input"
    /\ \E caps \in CapSettings :
        /\ gcaps' = caps
        /\ evidence' = group_evidence_hits(hits, caps)
        /\ cap_dropped' = GroupFold(hits, caps).cap_dropped
    /\ pc' = "done"
    /\ UNCHANGED <<hits, gate_errors>>
    /\ UNCHANGED <<candidates, strategy, top_k, model, oracle, result>>
    /\ UNCHANGED <<offsetVars, recallVars, replayVars, frameVars>>

\* test_evidence_grouping_gate: run_gate on the fixture with the default caps
RunGate ==
    /\ pc = "input"
    /\ hits = <<>>
    /\ hits' = _build_hits
    /\ gcaps' = Caps(DEFAULT_MAX_DOCUMENTS, DEFAULT_MAX_NODES_PER_DOCUMENT,
                     DEFAULT_MAX_PAGES_PER_DOCUMENT)
    /\ evidence' = group_evidence_hits(hits', gcaps')
    /\ cap_dropped' = GroupFold(hits', gcaps').cap_dropped
    /\ gate_errors' = run_gate_errors(evidence', gcaps')
    /\ pc' = "done"
    /\ UNCHANGED <<candidates, strategy, top_k, model, oracle, result>>
    /\ UNCHANGED <<offsetVars, recallVars, replayVars, frameVars>>

NextGroup == AddHit \/ GroupEvidence \/ RunGate

SpecGroup == Init /\ [][NextGroup]_vars

----------------------------------------------------------------------------
(* Properties of rerank *)

Done == pc = "done"
Out == result.out
Details(i) == Out[i].score_details

\* the call got past the early return
NonTrivialCall == Done /\ top_k > 0 /\ candidates # <<>>

\* what rerank returns for the same candidates, top_k and model with strategy "none"
NoneOutput == rerank(candidates, Some(S_none), top_k, model, NoOracle(candidates)).out

\* the strategy string, trimmed and lower-cased, is one of the three recognised names
Recognised(st) == st # None /\ Lower(Strip(Val(st))) \in {S_none, S_llm, S_bge}
RecognisedAs(st, name) == st # None /\ Lower(Strip(Val(st))) = name

\* a candidate with the two fallback annotations blanked
WithoutFallback(c) ==
    [c EXCEPT !.score_details.rerank_fallback = FALSE,
              !.score_details.rerank_fallback_reason = None]

\* the reranker failed: at construction, or when it was invoked on the text nodes
OracleFailedAtBuild == oracle.build # "ok"
OracleFailedAtRun == oracle.build = "ok" /\ oracle.run # "ok" /\ TextNodes(candidates) # {}

\* C1: with strategy "none" and top_k > 0 the output is ordered by
\* non-increasing score, and adjacent outputs of equal score are in ascending
\* node_id order under string comparison.
C1_NoneSorted ==
    (NonTrivialCall /\ strategy = Some(S_none)) =>
        /\ result.status = "returned"
        /\ \A i \in 1..(Len(Out) - 1) :
            /\ Out[i].score >= Out[i + 1].score
            /\ Out[i].score = Out[i + 1].score =>
                   ~StrLess(Out[i + 1].node_id, Out[i].node_id)

\* C1 witness: a "none" call whose input had "n2" before "n10" at equal score
\* and whose output has them in string order
C1_Witness ==
    /\ NonTrivialCall /\ strategy = Some(S_none) /\ top_k = 2
    /\ Len(candidates) = 2
    /\ candidates[1].node_id = <<"n", "2">> /\ candidates[2].node_id = <<"n", "1", "0">>
    /\ candidates[1].score = candidates[2].score
    /\ Len(Out) = 2
    /\ Out[1].node_id = <<"n", "1", "0">> /\ Out[2].node_id = <<"n", "2">>

\* C2 (as claimed): whenever the reranker fails, at construction or at
\* invocation, under strategy llm or bge_reranker, rerank returns the
\* strategy-"none" output with rerank_fallback = true and a non-empty reason.
C2_FailureEqualsNone ==
    (NonTrivialCall /\ (RecognisedAs(strategy, S_llm) \/ RecognisedAs(strategy, S_bge))
       /\ (OracleFailedAtBuild \/ OracleFailedAtRun)) =>
        /\ result.status = "returned"
        /\ Len(Out) = Len(NoneOutput)
        /\ \A i \in DOMAIN Out :
            /\ WithoutFallback(Out[i]) = WithoutFallback(NoneOutput[i])
            /\ Details(i).rerank_fallback = TRUE
            /\ Details(i).rerank_fallback_reason # None
            /\ Val(Details(i).rerank_fallback_reason) # ""

\* C3 (as claimed): when postprocess_nodes raises or times out after the
\* reranker was constructed, rerank still returns the score-sorted fallback
\* list flagged rerank_fallback = true with a reason.
C3_RunFailureFallsBack ==
    (NonTrivialCall /\ (RecognisedAs(strategy, S_llm) \/ RecognisedAs(strategy, S_bge))
       /\ OracleFailedAtRun) =>
        /\ result.status = "returned"
        /\ [i \in DOMAIN Out |-> Out[i].node_id] = [i \in DOMAIN NoneOutput |-> NoneOutput[i].node_id]
        /\ \A i \in DOMAIN Out :
            /\ Details(i).rerank_fallback = TRUE
            /\ Details(i).rerank_fallback_reason # None

\* C4: whenever rerank returns, the output has min(top_k, len(candidates))
\* elements when top_k > 0; with top_k <= 0 or no candidates it returns the
\* empty list and does not raise.
C4_OutputLength ==
    Done =>
        /\ (result.status = "returned" /\ top_k > 0) =>
               Len(Out) = Min(top_k, Len(candidates))
        /\ (top_k <= 0 \/ candidates = <<>>) =>
               (result.status = "returned" /\ Out = <<>>)

\* C4 witness: an oracle-scored call that truncates three candidates to two
C4_Witness ==
    /\ NonTrivialCall /\ result.status = "returned"
    /\ Len(candidates) = 3 /\ top_k = 2 /\ Len(Out) = 2
    /\ \E i \in DOMAIN Out : Details(i).rerank_applied

\* C5 (as claimed): every returned candidate has stage "reranked".
C5_StageReranked ==
    (Done /\ result.status = "returned") =>
        \A i \in DOMAIN Out : Out[i].stage = "reranked"

\* C5 (amended): every candidate returned by rerank, on every path, has
\* stage "rerank".
C5_StageRerank ==
    (Done /\ result.status = "returned") =>
        \A i \in DOMAIN Out : Out[i].stage = "rerank"

\* C5 witness: a returned, non-empty list built from "fused" candidates, one
\* of them oracle-scored and one not
C5_Witness ==
    /\ Done /\ result.status = "returned" /\ Len(Out) = 2
    /\ \A i \in DOMAIN candidates : candidates[i].stage = "fused"
    /\ Details(1).rerank_applied /\ ~Details(2).rerank_applied

\* C7: a strategy string that is not a recognised name after trimming and
\* lower-casing gives the strategy-"none" ordering with rerank_strategy =
\* "none" and rerank_fallback = true on every output candidate; a recognised
\* "none" gives rerank_fallback = false.
C7_UnknownStrategy ==
    NonTrivialCall =>
        /\ ~Recognised(strategy) =>
            /\ result.status = "returned"
            /\ [i \in DOMAIN Out |-> <<Out[i].node_id, Out[i].score>>]
                 = [i \in DOMAIN NoneOutput |-> <<NoneOutput[i].node_id, NoneOutput[i].score>>]
            /\ \A i \in DOMAIN Out :
                   Details(i).rerank_strategy = S_none /\ Details(i).rerank_fallback = TRUE
        /\ RecognisedAs(strategy, S_none) =>
            /\ result.status = "returned"
            /\ \A i \in DOMAIN Out :
                   Details(i).rerank_strategy = S_none /\ Details(i).rerank_fallback = FALSE

\* C7 witness: an unknown strategy string reordered two candidates by score
C7_Witness ==
    /\ NonTrivialCall /\ strategy = Some(<<"f", "o", "o">>)
    /\ Len(candidates) = 2 /\ candidates[1].score < candidates[2].score
    /\ Len(Out) = 2 /\ Out[1].score > Out[2].score
    /\ Details(1).rerank_fallback

----------------------------------------------------------------------------
(* Properties of group_evidence_hits *)

Grouped == pc = "done"
Stats == evidence.meta.stats

\* the (source, document) pairs present in the output tree
Pairs ==
    {<<s, d>> \in UNION {{<<s2, d2>> : d2 \in DOMAIN evidence.by_source[s2].by_document} :
                             s2 \in DOMAIN evidence.by_source} : TRUE}

PagesOfPair(pr) == evidence.by_source[pr[1]].by_document[pr[2]].pages

\* C8 (as claimed): total_hits_in is the length of the input and equals
\* total_hits_used + dropped_missing_node_id + dropped_missing_document_id +
\* the number of hits dropped by the document, node or page caps.
C8_Conservation ==
    Grouped =>
        /\ Stats.total_hits_in = Len(hits)
        /\ Stats.total_hits_in =
               Stats.total_hits_used + Stats.dropped_missing_node_id
               + Stats.dropped_missing_document_id + cap_dropped

\* C8 (amended): total_hits_in is the length of the input and equals
\* total_hits_used + dropped_missing_node_id + dropped_missing_document_id +
\* deduped_node_count + the number of hits dropped by the caps.
C8_ConservationWithDedup ==
    Grouped =>
        /\ Stats.total_hits_in = Len(hits)
        /\ Stats.total_hits_in =
               Stats.total_hits_used + Stats.dropped_missing_node_id
               + Stats.dropped_missing_document_id + Stats.deduped_node_count + cap_dropped

\* C8 witness: a run with one placed hit, one in-bucket repeat and one hit
\* dropped by a cap
C8_Witness ==
    /\ Grouped /\ Len(hits) = 3
    /\ Stats.total_hits_used = 1 /\ Stats.deduped_node_count = 1 /\ cap_dropped = 1

\* C9 (as claimed): at most max_documents document ids; per (source, document)
\* pair at most max_nodes_per_document node ids, and at most
\* max_pages_per_document page buckets, the "_" bucket counted as one.
C9_CapsCountingUnknown ==
    Grouped =>
        /\ Len(evidence.document_ids) <= gcaps.max_documents
        /\ \A pr \in Pairs :
            /\ PairNodeCount(PagesOfPair(pr)) <= gcaps.max_nodes_per_document
            /\ Cardinality(DOMAIN PagesOfPair(pr)) <= gcaps.max_pages_per_document

\* C9 (amended): at most max_documents document ids; per (source, document)
\* pair at most max_nodes_per_document node ids and at most
\* max_pages_per_document numbered page buckets; the "_" bucket is outside
\* the page cap, so a pair has at most max_pages_per_document + 1 buckets.
C9_CapsNumberedPages ==
    Grouped =>
        /\ Len(evidence.document_ids) <= gcaps.max_documents
        /\ \A pr \in Pairs :
            /\ PairNodeCount(PagesOfPair(pr)) <= gcaps.max_nodes_per_document
            /\ Cardinality(DOMAIN PagesOfPair(pr) \ {"_"}) <= gcaps.max_pages_per_document
            /\ Cardinality(DOMAIN PagesOfPair(pr)) <= gcaps.max_pages_per_document + 1

\* C9 witness: a pair that is full of numbered pages, lost a hit to a cap
\* and holds the "_" bucket as well
C9_Witness ==
    /\ Grouped /\ cap_dropped >= 1
    /\ \E pr \in Pairs :
        /\ "_" \in DOMAIN PagesOfPair(pr)
        /\ Cardinality(DOMAIN PagesOfPair(pr) \ {"_"}) = gcaps.max_pages_per_document

\* C10: on the 12-hit fixture with caps 2/4/2 the result has document_ids
\* <<doc1, doc2>>, no doc3 under any source, the six stats 1, 1, 1, 1, 12, 6
\* and keyword/doc1 page "1" equal to <<n1, n2>>.
C10_Fixture ==
    (Grouped /\ hits = _build_hits /\ gcaps = Caps(2, 4, 2)) =>
        /\ evidence.document_ids = <<"doc1", "doc2">>
        /\ \A s \in DOMAIN evidence.by_source :
               "doc3" \notin DOMAIN evidence.by_source[s].by_document
        /\ Stats = [dropped_missing_document_id |-> 1, dropped_missing_node_id |-> 1,
                    unknown_page_count |-> 1, deduped_node_count |-> 1,
                    total_hits_in |-> 12, total_hits_used |-> 6]
        /\ <<"keyword", "doc1">> \in Pairs
        /\ "1" \in DOMAIN PagesOfPair(<<"keyword", "doc1">>)
        /\ PagesOfPair(<<"keyword", "doc1">>)["1"] = <<"n1", "n2">>

\* C10 witness: the gate ran on the fixture and reported no error
C10_Witness ==
    /\ Grouped /\ Len(hits) = 12 /\ hits = _build_hits /\ gcaps = Caps(2, 4, 2)
    /\ gate_errors = {}

\* the gate ran: the input is the fixture and the caps are the gate's defaults
GateRan ==
    /\ Grouped /\ Len(hits) = 12
    /\ gcaps = Caps(DEFAULT_MAX_DOCUMENTS, DEFAULT_MAX_NODES_PER_DOCUMENT,
                    DEFAULT_MAX_PAGES_PER_DOCUMENT)

\* C11: on the fixture, keyword/doc1 has exactly the buckets "1" -> <<n1, n2>>,
\* "2" -> <<n3>> (n9 is left out, the pair being full with 4 nodes) and
\* "_" -> <<n8>>; reranked/doc2 has at most 2 page buckets and no page "3".
C11_FixtureBuckets ==
    GateRan =>
        /\ <<"keyword", "doc1">> \in Pairs
        /\ PagesOfPair(<<"keyword", "doc1">>) =
               [k \in {"1", "2", "_"} |->
                   IF k = "1" THEN <<"n1", "n2">> ELSE IF k = "2" THEN <<"n3">> ELSE <<"n8">>]
        /\ <<"reranked", "doc2">> \in Pairs
        /\ Cardinality(DOMAIN PagesOfPair(<<"reranked", "doc2">>)) <= 2
        /\ "3" \notin DOMAIN PagesOfPair(<<"reranked", "doc2">>)

\* C11 witness: the gate ran, keyword/doc1 is full with 4 nodes over three
\* buckets, n9 is in none of them, and two hits were lost to the node and
\* page caps besides the one lost to the document cap
C11_Witness ==
    /\ GateRan /\ <<"keyword", "doc1">> \in Pairs
    /\ PairNodeCount(PagesOfPair(<<"keyword", "doc1">>)) = DEFAULT_MAX_NODES_PER_DOCUMENT
    /\ Cardinality(DOMAIN PagesOfPair(<<"keyword", "doc1">>)) = 3
    /\ \A k \in DOMAIN PagesOfPair(<<"keyword", "doc1">>) :
           ~InSeq("n9", PagesOfPair(<<"keyword", "doc1">>)[k])
    /\ cap_dropped = 3

\* C12: at no depth does the output of group_evidence_hits have a key named
\* excerpt or content, whatever text the input hits carry.
C12_NoTextKeys ==
    Grouped => ~_has_forbidden_keys(evidence, {"excerpt", "content"})

\* C12 witness: a hit carrying excerpt and content text was placed in a bucket
C12_Witness ==
    /\ Grouped
    /\ \E i \in 1..Len(hits) :
        /\ hits[i].excerpt # None /\ hits[i].content # None
        /\ <<hits[i].source, hits[i].document_id>> \in Pairs
        /\ \E k \in DOMAIN PagesOfPair(<<hits[i].source, hits[i].document_id>>) :
               InSeq(hits[i].node_id, PagesOfPair(<<hits[i].source, hits[i].document_id>>)[k])

----------------------------------------------------------------------------
(* utils/artifacts.py: page index and page-local offsets *)

IsDigit(c) == c \in {Digits[i] : i \in DOMAIN Digits}
DigitValue(c) == (CHOOSE i \in DOMAIN Digits : Digits[i] = c) - 1

\* int() of a string of decimal digits
RECURSIVE ParseInt(_)
ParseInt(cs) ==
    IF cs = <<>> THEN 0
    ELSE 10 * ParseInt(SubSeq(cs, 1, Len(cs) - 1)) + DigitValue(cs[Len(cs)])

\* a value of a node dict field: a Python int or a Python str
IntVal(n) == [int |-> n]
StrVal(cs) == [str |-> cs]

\* int(x) for an int or a str: Some(n), or None when int() raises
PyInt(x) ==
    IF "int" \in DOMAIN x THEN Some(x.int)
    ELSE LET cs == Strip(x.str)
         IN  IF cs # <<>> /\ \A i \in DOMAIN cs : IsDigit(cs[i]) THEN Some(ParseInt(cs))
             ELSE None

\* the text has the literal lit at position i (1-based), letters compared
\* without regard to case (re.IGNORECASE)
LitAt(text, i, lit) ==
    /\ i + Len(lit) - 1 <= Len(text)
    /\ \A k \in DOMAIN lit : LowerChar(text[i + k - 1]) = lit[k]

\* \s*: first position at or after i that does not hold whitespace
SkipSpaces(text, i) ==
    CHOOSE j \in i..(Len(text) + 1) :
        /\ \A k \in i..(j - 1) : IsSpace(text[k])
        /\ j = Len(text) + 1 \/ ~IsSpace(text[j])

\* \d*: first position at or after i that does not hold a digit
SkipDigits(text, i) ==
    CHOOSE j \in i..(Len(text) + 1) :
        /\ \A k \in i..(j - 1) : IsDigit(text[k])
        /\ j = Len(text) + 1 \/ ~IsDigit(text[j])

\* _PAGE_MARK_RE = <!--\s*page:\s*(\d+)\s*-->, ignoring case, tried at
\* position i: the match (0-based start, position after its end, the digits
\* of group 1), or None
_PAGE_MARK_RE(text, i) ==
    LET b == SkipSpaces(text, i + 4)
        d == SkipSpaces(text, b + 5)
        e == SkipDigits(text, d)
        f == SkipSpaces(text, e)
    IN  IF /\ LitAt(text, i, <<"<", "!", "-", "-">>)
           /\ LitAt(text, b, <<"p", "a", "g", "e", ":">>)
           /\ e > d
           /\ LitAt(text, f, <<"-", "-", ">">>)
        THEN Some([start |-> i - 1, next |-> f + 3, group1 |-> SubSeq(text, d, e - 1)])
        ELSE None

\* list(_PAGE_MARK_RE.finditer(text)): the non-overlapping matches, left to
\* right, scanning from position i
RECURSIVE finditer(_, _)
finditer(text, i) ==
    IF i > Len(text) THEN <<>>
    ELSE LET m == _PAGE_MARK_RE(text, i)
         IN  IF m = None THEN finditer(text, i + 1)
             ELSE <<Val(m)>> \o finditer(text, Val(m).next)

\* the loop of build_page_start_index over the first k matches
RECURSIVE PageStartLoop(_, _)
PageStartLoop(matches, k) ==
    IF k = 0 THEN <<>>
    ELSE DictPut(PageStartLoop(matches, k - 1), ParseInt(matches[k].group1), matches[k].start)

\* variant that keeps the first marker of a page instead of the last
build_page_start_index_FirstWins(text) ==
    LET matches == finditer(text, 1)
        PageOf(k) == ParseInt(matches[k].group1)
    IN  IF matches = <<>> THEN [n \in {1} |-> 0]
        ELSE [n \in {PageOf(k) : k \in DOMAIN matches} |->
                 matches[CHOOSE k \in DOMAIN matches :
                             PageOf(k) = n /\ \A j \in 1..(k - 1) : PageOf(j) # n].start]

\* build_page_start_index(md)
build_page_start_index(text) ==
    LET matches == finditer(text, 1)
    IN  IF matches = <<>> THEN [n \in {1} |-> 0]
        ELSE PageStartLoop(matches, Len(matches))

Max(a, b) == IF a >= b THEN a ELSE b

\* a node dict; page, start_offset and end_offset hold None or Some(value),
\* meta_data and meta hold None or Some(dict)
Node(pg, so, eo, md_, mt) ==
    [page |-> pg, start_offset |-> so, end_offset |-> eo, meta_data |-> md_, meta |-> mt]

\* _coerce_int(v)
_coerce_int(v) == IF v = None THEN None ELSE PyInt(Val(v))

\* x or y, for Optional dicts: None and the empty dict are falsy
DictOr(x, y) == IF x # None /\ DOMAIN Val(x) # {} THEN Val(x) ELSE y

\* dict.setdefault(k, v)
SetDefault(d, k, v) == IF k \in DOMAIN d THEN d ELSE DictPut(d, k, v)

\* max(0, v - base)
Rebase(v, base) == Max(0, v - base)

\* a node that is appended as it is (a copy of the input dict)
Unconverted(d) == d

\* variant of the loop body that rewrites start_offset only
NormalizeNode_StartOnly(d, index) ==
    LET page_i == IF d.page = None THEN None ELSE PyInt(Val(d.page))
    IN  IF page_i = None THEN Unconverted(d)
        ELSE IF Val(page_i) \notin DOMAIN index THEN Unconverted(d)
        ELSE LET base == index[Val(page_i)]
                 s == _coerce_int(d.start_offset)
                 meta == SetDefault(DictOr(d.meta_data, DictOr(d.meta, <<>>)),
                                    "offset_mode", "page_local")
             IN  [d EXCEPT
                    !.start_offset = IF s # None THEN Some(IntVal(Rebase(Val(s), base))) ELSE @,
                    !.meta_data = Some(meta)]

\* variant of the loop body that marks every node, converted or not
NormalizeNode_MarkAll(d, index) ==
    LET page_i == IF d.page = None THEN None ELSE PyInt(Val(d.page))
        meta == SetDefault(DictOr(d.meta_data, DictOr(d.meta, <<>>)),
                           "offset_mode", "page_local")
    IN  IF page_i = None THEN [d EXCEPT !.meta_data = Some(meta)]
        ELSE IF Val(page_i) \notin DOMAIN index THEN [d EXCEPT !.meta_data = Some(meta)]
        ELSE LET base == index[Val(page_i)]
                 s == _coerce_int(d.start_offset)
                 e == _coerce_int(d.end_offset)
             IN  [d EXCEPT
                    !.start_offset = IF s # None THEN Some(IntVal(Rebase(Val(s), base))) ELSE @,
                    !.end_offset = IF e # None THEN Some(IntVal(Rebase(Val(e), base))) ELSE @,
                    !.meta_data = Some(meta)]

\* variant of the loop body that subtracts the base without the floor at 0
NormalizeNode_NoFloor(d, index) ==
    LET page_i == IF d.page = None THEN None ELSE PyInt(Val(d.page))
    IN  IF page_i = None THEN Unconverted(d)
        ELSE IF Val(page_i) \notin DOMAIN index THEN Unconverted(d)
        ELSE LET base == index[Val(page_i)]
                 s == _coerce_int(d.start_offset)
                 e == _coerce_int(d.end_offset)
                 meta == SetDefault(DictOr(d.meta_data, DictOr(d.meta, <<>>)),
                                    "offset_mode", "page_local")
             IN  [d EXCEPT
                    !.start_offset = IF s # None THEN Some(IntVal(Val(s) - base)) ELSE @,
                    !.end_offset = IF e # None THEN Some(IntVal(Val(e) - base)) ELSE @,
                    !.meta_data = Some(meta)]

\* the body of the loop of normalize_offsets_to_page_local for one node dict
NormalizeNode(d, index) ==
    LET page_i == IF d.page = None THEN None ELSE PyInt(Val(d.page))
    IN  IF page_i = None THEN Unconverted(d)
        ELSE IF Val(page_i) \notin DOMAIN index THEN Unconverted(d)
        ELSE LET base == index[Val(page_i)]
                 s == _coerce_int(d.start_offset)
                 e == _coerce_int(d.end_offset)
                 meta == SetDefault(DictOr(d.meta_data, DictOr(d.meta, <<>>)),
                                    "offset_mode", "page_local")
             IN  [d EXCEPT
                    !.start_offset = IF s # None THEN Some(IntVal(Rebase(Val(s), base))) ELSE @,
                    !.end_offset = IF e # None THEN Some(IntVal(Rebase(Val(e), base))) ELSE @,
                    !.meta_data = Some(meta)]

\* page_start as normalize_offsets_to_page_local uses it
PageStartOf(markdown) ==
    LET index == build_page_start_index(markdown)
    IN  IF DOMAIN index = {} THEN [n \in {1} |-> 0] ELSE index

\* normalize_offsets_to_page_local(node_dicts=, markdown=)
normalize_offsets_to_page_local(nodes, markdown) ==
    LET index == PageStartOf(markdown)
    IN  [i \in DOMAIN nodes |-> NormalizeNode(nodes[i], index)]

----------------------------------------------------------------------------
(* Inputs and actions of the offsets model *)

\* a piece of document text; page is Some(N) when the piece is a page marker
\* for page N, None when it is not a marker
Part(cs, pg) == [text |-> cs, page |-> pg]

\* "<!-- page: 1 -->", "<!--\nPAGE:2 -->", "<!-- Page: 12 -->", the marker
\* without a number "<!-- page: -->", and the plain text "ab"
TextParts ==
    { Part(<<"<", "!", "-", "-", " ", "p", "a", "g", "e", ":", " ", "1", " ", "-", "-", ">">>, Some(1)),
      Part(<<"<", "!", "-", "-", "\n", "P", "A", "G", "E", ":", "2", " ", "-", "-", ">">>, Some(2)),
      Part(<<"<", "!", "-", "-", " ", "P", "a", "g", "e", ":", " ", "1", "2", " ", "-", "-", ">">>, Some(12)),
      Part(<<"<", "!", "-", "-", " ", "p", "a", "g", "e", ":", " ", "-", "-", ">">>, None),
      Part(<<"a", "b">>, None) }

\* node dicts: offsets into the whole text on pages 1 and 2 (one with the
\* legacy meta key, one with the page as a numeric str and no end_offset),
\* one without a page, one whose page is not a number
NodeInputs ==
    { Node(Some(IntVal(1)), Some(IntVal(3)), Some(IntVal(20)), None, None),
      Node(Some(IntVal(1)), Some(IntVal(2)), Some(IntVal(5)), None, None),
      Node(Some(IntVal(2)), Some(IntVal(20)), Some(IntVal(40)), None,
           Some([k \in {"kind"} |-> "article"])),
      Node(Some(StrVal(<<"2">>)), Some(IntVal(5)), None, Some(<<>>), None),
      Node(None, Some(IntVal(5)), Some(IntVal(9)), None, None),
      Node(Some(StrVal(<<"x">>)), Some(IntVal(5)), Some(IntVal(9)), None, None) }

\* the writer of the document appends one piece of text
AppendPart ==
    /\ pc = "input"
    /\ Len(md_parts) < MaxParts
    /\ \E part \in TextParts :
        /\ md_parts' = Append(md_parts, part)
        /\ md' = md \o part.text
    /\ UNCHANGED <<pc, page_start, node_dicts, out_nodes, out_again>>
    /\ UNCHANGED <<candidates, strategy, top_k, model, oracle, result>>
    /\ UNCHANGED <<groupVars, recallVars, replayVars, frameVars>>

\* the caller appends one node dict to the list it will pass
AddNode ==
    /\ pc = "input"
    /\ Len(node_dicts) < MaxNodes
    /\ \E n \in NodeInputs : node_dicts' = Append(node_dicts, n)
    /\ UNCHANGED <<pc, md_parts, md, page_start, out_nodes, out_again>>
    /\ UNCHANGED <<candidates, strategy, top_k, model, oracle, result>>
    /\ UNCHANGED <<groupVars, recallVars, replayVars, frameVars>>

\* one call normalize_offsets_to_page_local(node_dicts=node_dicts, markdown=md)
NormalizeOffsets ==
    /\ pc = "input"
    /\ page_start' = PageStartOf(md)
    /\ out_nodes' = normalize_offsets_to_page_local(node_dicts, md)
    /\ pc' = "done"
    /\ UNCHANGED <<md_parts, md, node_dicts, out_again>>
    /\ UNCHANGED <<candidates, strategy, top_k, model, oracle, result>>
    /\ UNCHANGED <<groupVars, recallVars, replayVars, frameVars>>

\* a second call, on the output of the first and the same text
NormalizeAgain ==
    /\ pc = "done"
    /\ out_again' = normalize_offsets_to_page_local(out_nodes, md)
    /\ pc' = "again"
    /\ UNCHANGED <<md_parts, md, page_start, node_dicts, out_nodes>>
    /\ UNCHANGED <<candidates, strategy, top_k, model, oracle, result>>
    /\ UNCHANGED <<groupVars, recallVars, replayVars, frameVars>>

NextOffsets == AppendPart \/ AddNode \/ NormalizeOffsets \/ NormalizeAgain

SpecOffsets == Init /\ [][NextOffsets]_vars

----------------------------------------------------------------------------
(* Properties of build_page_start_index and normalize_offsets_to_page_local *)

OffsetsDone == pc \in {"done", "again"}

\* the text written by the first k pieces
RECURSIVE TextOfParts(_)
TextOfParts(k) == IF k = 0 THEN <<>> ELSE TextOfParts(k - 1) \o md_parts[k].text

\* the pages for which a marker was written, and where the last marker of a
\* page starts (0-based offset into md)
MarkedPages == {Val(md_parts[i].page) : i \in {j \in DOMAIN md_parts : md_parts[j].page # None}}
LastMarker(n) ==
    CHOOSE i \in DOMAIN md_parts :
        /\ md_parts[i].page = Some(n)
        /\ \A j \in (i + 1)..Len(md_parts) : md_parts[j].page # Some(n)
MarkerOffset(i) == Len(TextOfParts(i - 1))

\* the page number of a node as an int, None when absent or not a number
PageOfNode(d) == IF d.page = None THEN None ELSE PyInt(Val(d.page))
Indexed(d) == PageOfNode(d) # None /\ Val(PageOfNode(d)) \in DOMAIN page_start
BaseOf(d) == page_start[Val(PageOfNode(d))]
Marked(d) ==
    /\ d.meta_data # None
    /\ "offset_mode" \in DOMAIN Val(d.meta_data)
    /\ Val(d.meta_data)["offset_mode"] = "page_local"

\* C13: for a node on an indexed page N whose offsets are not below the base
\* of N, the page-local offsets plus the base build_page_start_index(md)[N]
\* (held in page_start) are the original offsets.
C13_RoundTrip ==
    OffsetsDone =>
        \A i \in DOMAIN node_dicts :
            LET d == node_dicts[i]
                b == BaseOf(d)
            IN  (/\ Indexed(d)
                 /\ d.start_offset # None /\ Val(d.start_offset).int >= b
                 /\ d.end_offset # None /\ Val(d.end_offset).int >= b)
                => /\ Val(out_nodes[i].start_offset).int + b = Val(d.start_offset).int
                   /\ Val(out_nodes[i].end_offset).int + b = Val(d.end_offset).int

\* C13 witness: a node on a page that starts after offset 0, with both
\* offsets on the page, was converted to smaller offsets
C13_Witness ==
    /\ OffsetsDone
    /\ \E i \in DOMAIN node_dicts :
        LET d == node_dicts[i]
        IN  /\ Indexed(d) /\ BaseOf(d) > 0
            /\ d.start_offset # None /\ Val(d.start_offset).int > BaseOf(d)
            /\ d.end_offset # None /\ Val(d.end_offset).int > BaseOf(d)
            /\ Val(out_nodes[i].start_offset).int < Val(d.start_offset).int
            /\ Val(out_nodes[i].end_offset).int < Val(d.end_offset).int

\* C14 (as claimed): applying normalize_offsets_to_page_local to its own
\* output with the same text leaves start_offset and end_offset as they were
\* after the first application.
C14_Idempotent ==
    pc = "again" =>
        \A i \in DOMAIN out_nodes :
            /\ out_again[i].start_offset = out_nodes[i].start_offset
            /\ out_again[i].end_offset = out_nodes[i].end_offset

C16_Unconverted ==
    OffsetsDone =>
        /\ Len(out_nodes) = Len(node_dicts)
        /\ \A i \in DOMAIN node_dicts :
            /\ out_nodes[i].page = node_dicts[i].page
            /\ out_nodes[i].meta = node_dicts[i].meta
            /\ ~Indexed(node_dicts[i]) =>
                   /\ out_nodes[i] = node_dicts[i]
                   /\ ~Marked(out_nodes[i])

\* C16 witness: of two nodes the first has a numbered page that the index of
\* a text with markers lacks and is returned as it was; the second is
\* converted
C16_Witness ==
    /\ OffsetsDone /\ Len(node_dicts) = 2 /\ Len(out_nodes) = 2
    /\ MarkedPages # {}
    /\ PageOfNode(node_dicts[1]) # None /\ ~Indexed(node_dicts[1])
    /\ out_nodes[1] = node_dicts[1]
    /\ Indexed(node_dicts[2]) /\ out_nodes[2] # node_dicts[2]

\* C17: build_page_start_index gives {1: 0} for a text without page marker;
\* otherwise its keys are the marked pages and each maps to the offset of
\* the first character of the last marker of that page.
C17_PageIndex ==
    OffsetsDone =>
        /\ page_start = build_page_start_index(md)
        /\ MarkedPages = {} => page_start = [n \in {1} |-> 0]
        /\ MarkedPages # {} =>
               page_start = [n \in MarkedPages |-> MarkerOffset(LastMarker(n))]

\* C17 witness: a page is marked twice, other text lies before the second
\* marker, and the index holds the offset of the second marker
C17_Witness ==
    /\ OffsetsDone
    /\ \E i, j \in DOMAIN md_parts :
        /\ i < j /\ md_parts[i].page # None /\ md_parts[i].page = md_parts[j].page
        /\ j = LastMarker(Val(md_parts[j].page))
        /\ page_start[Val(md_parts[j].page)] = MarkerOffset(j)
        /\ MarkerOffset(j) > MarkerOffset(i)

----------------------------------------------------------------------------
(* pipelines/evaluator/keyword_recall.py: recall metrics *)

\* a float that is the quotient of two counts, kept as the pair of counts
Frac(n, d) == [num |-> n, den |-> d]
FracEq(x, y) == x.num * y.den = y.num * x.den
FracGeq(x, y) == x.num * y.den >= y.num * x.den

\* sorted(list(S)) for a set of str
RECURSIVE SortedIds(_)
SortedIds(S) ==
    IF S = {} THEN <<>>
    ELSE LET m == CHOOSE x \in S : \A y \in S \ {x} : StrLess(x, y)
         IN  <<m>> \o SortedIds(S \ {m})

\* _sample(sorted_ids, n)
_sample(sorted_ids, n) ==
    IF n <= 0 THEN <<>> ELSE SubSeq(sorted_ids, 1, Min(n, Len(sorted_ids)))

_MetricRaw(kw, gt, hits_, k) ==
    [keyword |-> kw, gt_nodes |-> gt, kw_nodes |-> hits_, keyword_top_k |-> k]

\* the recall of _calc_metric
MetricRecall(gt_total, overlap) ==
    IF gt_total = 0 THEN None ELSE Some(Frac(overlap, gt_total))

\* variant of the precision that is 0.0 instead of null without keyword hits
MetricPrecision_ZeroForNull(gt_total, kw_total, overlap) ==
    IF kw_total = 0 THEN Some(Frac(0, 1))
    ELSE IF gt_total = 0 THEN Some(Frac(0, 1)) ELSE Some(Frac(overlap, kw_total))

\* the precision of _calc_metric
MetricPrecision(gt_total, kw_total, overlap) ==
    IF gt_total = 0
    THEN (IF kw_total = 0 THEN None ELSE Some(Frac(0, 1)))
    ELSE (IF kw_total = 0 THEN None ELSE Some(Frac(overlap, kw_total)))

\* variant of the capped flag that requires kw_total to equal keyword_top_k
MetricCapped_Equal(gt_total, kw_total, k) == kw_total = k /\ gt_total > kw_total

\* the capped flag of _calc_metric
MetricCapped(gt_total, kw_total, k) == kw_total >= k /\ gt_total > kw_total

\* _calc_metric(raw=, sample_n=)
_calc_metric(raw, sample_n) ==
    LET gt_total == Cardinality(raw.gt_nodes)
        kw_total == Cardinality(raw.kw_nodes)
        overlap == Cardinality(raw.gt_nodes \cap raw.kw_nodes)
        missing == SortedIds(raw.gt_nodes \ raw.kw_nodes)
        extra == SortedIds(raw.kw_nodes \ raw.gt_nodes)
    IN  [keyword |-> raw.keyword,
         gt_mode |-> "substring",
         keyword_top_k |-> raw.keyword_top_k,
         gt_total |-> gt_total,
         kw_total |-> kw_total,
         overlap |-> overlap,
         recall |-> MetricRecall(gt_total, overlap),
         precision |-> MetricPrecision(gt_total, kw_total, overlap),
         capped |-> MetricCapped(gt_total, kw_total, raw.keyword_top_k),
         missing_sample |-> _sample(missing, sample_n),
         extra_sample |-> _sample(extra, sample_n)]

\* playground/ground_truth/retrieval_keyword_groundtruth_gate.py, run_gate:
\* overlap, recall, missing, extra and the verdict
groundtruth_gate(gt, kw, min_recall) ==
    LET overlap == Cardinality(gt \cap kw)
        recall == IF gt # {} THEN Frac(overlap, Cardinality(gt)) ELSE Frac(1, 1)
    IN  [overlap |-> overlap,
         recall |-> recall,
         missing |-> SortedIds(gt \ kw),
         extra |-> SortedIds(kw \ gt),
         ok |-> IF gt # {} THEN FracGeq(recall, min_recall) ELSE TRUE]

----------------------------------------------------------------------------
(* Inputs and actions of the recall model *)

\* the node ids of the knowledge base
RecallNodeIds == {<<"n", "1">>, <<"n", "2">>, <<"n", "3">>}
SampleSizes == {0, 2}
\* --min-recall, default 0.99
DEFAULT_MIN_RECALL == Frac(99, 100)

\* the substring scan finds the keyword in one more node
AddGroundTruth ==
    /\ pc = "input"
    /\ \E n \in RecallNodeIds \ gt_nodes : gt_nodes' = gt_nodes \cup {n}
    /\ UNCHANGED <<pc, kw_nodes, keyword_top_k, metric, gate_result>>
    /\ UNCHANGED <<candidates, strategy, top_k, model, oracle, result>>
    /\ UNCHANGED <<groupVars, offsetVars, replayVars, frameVars>>

\* the keyword recall returns one more node
AddKeywordHit ==
    /\ pc = "input"
    /\ \E n \in RecallNodeIds \ kw_nodes : kw_nodes' = kw_nodes \cup {n}
    /\ UNCHANGED <<pc, gt_nodes, keyword_top_k, metric, gate_result>>
    /\ UNCHANGED <<candidates, strategy, top_k, model, oracle, result>>
    /\ UNCHANGED <<groupVars, offsetVars, replayVars, frameVars>>

\* evaluate_keyword_recall computes the metric of one keyword
CalcMetric ==
    /\ pc = "input"
    /\ \E k \in 0..MaxTopK, sample_n \in SampleSizes :
        /\ keyword_top_k' = k
        /\ metric' = Some(_calc_metric(_MetricRaw("k", gt_nodes, kw_nodes, k), sample_n))
    /\ pc' = "done"
    /\ UNCHANGED <<gt_nodes, kw_nodes, gate_result>>
    /\ UNCHANGED <<candidates, strategy, top_k, model, oracle, result>>
    /\ UNCHANGED <<groupVars, offsetVars, replayVars, frameVars>>

\* the ground-truth gate runs on the same two sets
RunGroundTruthGate ==
    /\ pc = "input"
    /\ gate_result' = Some(groundtruth_gate(gt_nodes, kw_nodes, DEFAULT_MIN_RECALL))
    /\ pc' = "done"
    /\ UNCHANGED <<gt_nodes, kw_nodes, keyword_top_k, metric>>
    /\ UNCHANGED <<candidates, strategy, top_k, model, oracle, result>>
    /\ UNCHANGED <<groupVars, offsetVars, replayVars, frameVars>>

NextRecall == AddGroundTruth \/ AddKeywordHit \/ CalcMetric \/ RunGroundTruthGate

SpecRecall == Init /\ [][NextRecall]_vars

----------------------------------------------------------------------------
(* Properties of the recall metrics *)

MetricDone == metric # None
Metric == Val(metric)

\* C18 (as claimed): recall is |GT & KW| / |GT| when GT is not empty and 1.0
\* when GT is empty, whatever KW holds.
C18_Recall ==
    MetricDone =>
        /\ Metric.recall # None
        /\ gt_nodes # {} =>
               FracEq(Val(Metric.recall),
                      Frac(Cardinality(gt_nodes \cap kw_nodes), Cardinality(gt_nodes)))
        /\ gt_nodes = {} => FracEq(Val(Metric.recall), Frac(1, 1))

\* C19: precision is null when KW is empty (also when GT is empty too) and
\* |GT & KW| / |KW| when KW is not empty, hence 0.0 when only GT is empty.
C19_Precision ==
    MetricDone =>
        /\ kw_nodes = {} => Metric.precision = None
        /\ kw_nodes # {} =>
               /\ Metric.precision # None
               /\ FracEq(Val(Metric.precision),
                         Frac(Cardinality(gt_nodes \cap kw_nodes), Cardinality(kw_nodes)))
               /\ gt_nodes = {} => FracEq(Val(Metric.precision), Frac(0, 1))

\* C19 witness: the corner the claim pins: both sets are empty and the
\* computed precision is null
C19_Witness ==
    /\ MetricDone /\ gt_nodes = {} /\ kw_nodes = {}
    /\ Metric.precision = None /\ Metric.kw_total = 0 /\ Metric.gt_total = 0

\* C20 (as claimed): capped is true exactly when |KW| = keyword_top_k and
\* |GT| > |KW|.
C20_CappedEqual ==
    MetricDone =>
        (Metric.capped <=>
            (Cardinality(kw_nodes) = keyword_top_k /\ Cardinality(gt_nodes) > Cardinality(kw_nodes)))

\* C20 (amended): capped is true exactly when |KW| >= keyword_top_k and
\* |GT| > |KW|.
C20_CappedAtLeast ==
    MetricDone =>
        (Metric.capped <=>
            (Cardinality(kw_nodes) >= keyword_top_k /\ Cardinality(gt_nodes) > Cardinality(kw_nodes)))

\* C20 witness: more keyword hits than keyword_top_k, still fewer than the
\* ground truth, and the metric is flagged capped
C20_Witness ==
    /\ MetricDone /\ Metric.capped
    /\ Cardinality(kw_nodes) > keyword_top_k /\ keyword_top_k > 0
    /\ Cardinality(gt_nodes) > Cardinality(kw_nodes)

----------------------------------------------------------------------------
(* playground/fastapi_gate/retrieval_strategy/offset_replay_gate.py *)

\* _WS_RE.sub(" ", s): every maximal run of whitespace becomes one space
RECURSIVE CollapseSpaces(_)
CollapseSpaces(s) ==
    IF s = <<>> THEN <<>>
    ELSE IF IsSpace(Head(s))
         THEN <<" ">> \o CollapseSpaces(LStrip(s))
         ELSE <<Head(s)>> \o CollapseSpaces(Tail(s))

\* _norm_text(s)
_norm_text(s) == CollapseSpaces(Lower(Strip(s)))

\* Python "x in y" for two str
StrIn(x, y) ==
    \E i \in 1..(Len(y) - Len(x) + 1) : SubSeq(y, i, i + Len(x) - 1) = x

\* s.split(" "): the pieces between single spaces, empty pieces included
RECURSIVE SplitSpace(_)
SplitSpace(s) ==
    IF \A i \in DOMAIN s : s[i] # " " THEN <<s>>
    ELSE LET i == CHOOSE j \in DOMAIN s : s[j] = " " /\ \A k \in 1..(j - 1) : s[k] # " "
         IN  <<SubSeq(s, 1, i - 1)>> \o SplitSpace(SubSeq(s, i + 1, Len(s)))

\* set(t for t in a.split(" ") if len(t) >= 4)
LongTokens(a) ==
    LET toks == SplitSpace(a)
    IN  {toks[i] : i \in {j \in DOMAIN toks : Len(toks[j]) >= 4}}

\* variant that counts tokens of length >= 3
_fuzzy_match_ShortTokens(slice_text, ref_text) ==
    LET a == _norm_text(slice_text)
        b == _norm_text(ref_text)
        Toks(x) == LET toks == SplitSpace(x)
                   IN  {toks[i] : i \in {j \in DOMAIN toks : Len(toks[j]) >= 3}}
    IN  IF a = <<>> \/ b = <<>> THEN FALSE
        ELSE IF StrIn(b, a) \/ StrIn(a, b) THEN TRUE
        ELSE Cardinality(Toks(a) \cap Toks(b)) >= 3

\* _fuzzy_match(slice_text, ref_text)
_fuzzy_match(slice_text, ref_text) ==
    LET a == _norm_text(slice_text)
        b == _norm_text(ref_text)
    IN  IF a = <<>> \/ b = <<>> THEN FALSE
        ELSE IF StrIn(b, a) \/ StrIn(a, b) THEN TRUE
        ELSE Cardinality(LongTokens(a) \cap LongTokens(b)) >= 3

\* quote = str(c.get("quote") or "").strip() or None
PickedQuote(q) == IF Strip(q) = <<>> THEN None ELSE Some(Strip(q))

\* str(ref_text or "")
StrOrEmpty(o) == IF o = None THEN <<>> ELSE Val(o)

\* variant of the replay check that slices without looking at the bounds
\* (Python slicing clips a range that leaves the text)
replay_check_NoBounds(content_, start_, end_, ref_text) ==
    LET clen == Len(content_)
        ok_bounds == 0 <= start_ /\ start_ < end_ /\ end_ <= clen
        slice_text == SubSeq(content_, Max(0, start_) + 1, Min(end_, clen))
        ok_match == _fuzzy_match(slice_text, StrOrEmpty(ref_text))
        ok == Strip(content_) # <<>> /\ ok_match
    IN  [ok_bounds |-> ok_bounds, slice_text |-> slice_text, ok_match |-> ok_match,
         ok |-> ok, exit |-> IF ok THEN 0 ELSE 2]

\* main, step 5: bounds, slice, match, verdict and exit code
replay_check(content_, start_, end_, ref_text) ==
    LET clen == Len(content_)
        ok_bounds == 0 <= start_ /\ start_ < end_ /\ end_ <= clen
        slice_text == IF ok_bounds THEN SubSeq(content_, start_ + 1, end_) ELSE <<>>
        ok_match == IF ok_bounds THEN _fuzzy_match(slice_text, StrOrEmpty(ref_text))
                    ELSE FALSE
        ok == Strip(content_) # <<>> /\ ok_bounds /\ ok_match
    IN  [ok_bounds |-> ok_bounds, slice_text |-> slice_text, ok_match |-> ok_match,
         ok |-> ok, exit |-> IF ok THEN 0 ELSE 2]

\* what main leaves when an HTTP call or anything else raises
replay_error ==
    [ok_bounds |-> FALSE, slice_text |-> <<>>, ok_match |-> FALSE, ok |-> FALSE, exit |-> 1]

----------------------------------------------------------------------------
(* Inputs and actions of the replay model *)

\* pieces of text, ten characters each: "abcd EFGH ", "ijkl\nmnop ",
\* "  xyz     " and ten blanks
TextPieces ==
    { <<"a", "b", "c", "d", " ", "E", "F", "G", "H", " ">>,
      <<"i", "j", "k", "l", "\n", "m", "n", "o", "p", " ">>,
      <<" ", " ", "x", "y", "z", " ", " ", " ", " ", " ">>,
      <<" ", " ", " ", " ", " ", " ", " ", " ", " ", " ">> }

\* offsets of the picked evidence: _pick_evidence_from_chat returns only
\* pairs with end_offset > start_offset
StartOffsets == {-10, 0, 10}
EndOffsets == {10, 20, 30}

\* the page the server returns grows by one piece of text
AppendContent ==
    /\ pc = "input"
    /\ Len(page_content) < 10 * MaxPieces
    /\ \E piece \in TextPieces : page_content' = page_content \o piece
    /\ UNCHANGED <<pc, quote, start_off, end_off, replay>>
    /\ UNCHANGED <<candidates, strategy, top_k, model, oracle, result>>
    /\ UNCHANGED <<groupVars, offsetVars, recallVars, frameVars>>

\* the quote of the citation grows by one piece of text
AppendQuote ==
    /\ pc = "input"
    /\ Len(quote) < 10 * MaxPieces
    /\ \E piece \in TextPieces : quote' = quote \o piece
    /\ UNCHANGED <<pc, page_content, start_off, end_off, replay>>
    /\ UNCHANGED <<candidates, strategy, top_k, model, oracle, result>>
    /\ UNCHANGED <<groupVars, offsetVars, recallVars, frameVars>>

\* main picks the evidence, fetches the page and replays the citation
Replay ==
    /\ pc = "input"
    /\ \E s \in StartOffsets, e \in EndOffsets :
        /\ e > s
        /\ start_off' = s
        /\ end_off' = e
        /\ replay' = Some(replay_check(page_content, s, e, PickedQuote(quote)))
    /\ pc' = "done"
    /\ UNCHANGED <<page_content, quote>>
    /\ UNCHANGED <<candidates, strategy, top_k, model, oracle, result>>
    /\ UNCHANGED <<groupVars, offsetVars, recallVars, frameVars>>

\* an HTTP call of main raises
ReplayFails ==
    /\ pc = "input"
    /\ replay' = Some(replay_error)
    /\ pc' = "done"
    /\ UNCHANGED <<page_content, quote, start_off, end_off>>
    /\ UNCHANGED <<candidates, strategy, top_k, model, oracle, result>>
    /\ UNCHANGED <<groupVars, offsetVars, recallVars, frameVars>>

NextReplay == AppendContent \/ AppendQuote \/ Replay \/ ReplayFails

SpecReplay == Init /\ [][NextReplay]_vars

----------------------------------------------------------------------------
(* Properties of the citation replay check *)

Replayed == replay # None
ReplayOut == Val(replay)

\* trimmed, lower-cased, whitespace runs collapsed to single spaces
IsNormalText(x) ==
    /\ \A i \in DOMAIN x : LowerChar(x[i]) = x[i] /\ (IsSpace(x[i]) => x[i] = " ")
    /\ \A i \in 1..(Len(x) - 1) : ~(x[i] = " " /\ x[i + 1] = " ")
    /\ x # <<>> => (x[1] # " " /\ x[Len(x)] # " ")

\* the maximal blank-free stretches of x that have at least 4 characters
TokensOfFour(x) ==
    {SubSeq(x, i, j) : <<i, j>> \in
        {<<i2, j2>> \in (DOMAIN x) \X (DOMAIN x) :
            /\ j2 - i2 + 1 >= 4
            /\ \A k \in i2..j2 : x[k] # " "
            /\ i2 = 1 \/ x[i2 - 1] = " "
            /\ j2 = Len(x) \/ x[j2 + 1] = " "}}

\* the quote as main hands it to _fuzzy_match
RefText == StrOrEmpty(PickedQuote(quote))

\* C21: with both texts normalized (trimmed, lower case, single spaces), the
\* fuzzy match fails if either is empty, passes if one is a substring of
\* the other, and otherwise passes iff they share at least 3 distinct
\* tokens of length >= 4.
C21_FuzzyMatch ==
    (Replayed /\ ReplayOut.ok_bounds) =>
        LET a == _norm_text(ReplayOut.slice_text)
            b == _norm_text(RefText)
        IN  /\ IsNormalText(a) /\ IsNormalText(b)
            /\ ReplayOut.ok_match <=>
                   /\ a # <<>> /\ b # <<>>
                   /\ \/ StrIn(a, b) \/ StrIn(b, a)
                      \/ Cardinality(TokensOfFour(a) \cap TokensOfFour(b)) >= 3

\* C21 witness: a slice and a quote, neither inside the other, that match
\* because they share three long tokens
C21_Witness ==
    /\ Replayed /\ ReplayOut.ok_bounds /\ ReplayOut.ok_match
    /\ ~StrIn(_norm_text(ReplayOut.slice_text), _norm_text(RefText))
    /\ ~StrIn(_norm_text(RefText), _norm_text(ReplayOut.slice_text))
    /\ ReplayOut.slice_text # _norm_text(ReplayOut.slice_text)

\* C22: the replay check passes (exit code 0) only if the page content is
\* not blank, 0 <= start_offset < end_offset <= len(content) and the slice
\* matches the reference text; out-of-bounds offsets or a slice that does
\* not match end in a failure.
C22_ReplayVerdict ==
    Replayed =>
        LET in_bounds == 0 <= start_off /\ start_off < end_off /\ end_off <= Len(page_content)
            matches == _fuzzy_match(SubSeq(page_content, start_off + 1, end_off), RefText)
        IN  /\ ReplayOut.exit = 0 =>
                   Strip(page_content) # <<>> /\ in_bounds /\ matches
            /\ (~in_bounds \/ ~matches) =>
                   ~ReplayOut.ok /\ ReplayOut.exit \in {1, 2}

\* C22 witness: the quote is on the page, but the end offset lies beyond the
\* end of the page, and the check fails
C22_Witness ==
    /\ Replayed /\ ReplayOut.exit = 2
    /\ start_off = 0 /\ end_off > Len(page_content)
    /\ RefText # <<>> /\ StrIn(RefText, page_content)

----------------------------------------------------------------------------
(* Properties of the oracle-scored path of rerank *)

\* the candidates for which the reranker returned a score
ScoredIdx == {i \in DOMAIN candidates : oracle.scores[i] # None}

\* the reranker was built and invoked under llm or bge_reranker, and returned
OracleRan ==
    /\ NonTrivialCall
    /\ RecognisedAs(strategy, S_llm) \/ RecognisedAs(strategy, S_bge)
    /\ oracle.build = "ok" /\ oracle.run = "ok"

\* the score a candidate is ordered by: the oracle's when it has one
OrderScore(i) ==
    IF i \in ScoredIdx THEN Val(oracle.scores[i]) ELSE candidates[i].score

\* the place of a candidate in the concatenation: group 0 (scored) before
\* group 1 (unscored), then the larger score, then the smaller node_id
InGroup(i) == IF i \in ScoredIdx THEN 0 ELSE 1
OutGroup(j) == IF Details(j).rerank_applied THEN 0 ELSE 1

\* input candidate i and output candidate j have the same place
SamePlace(i, j) ==
    /\ InGroup(i) = OutGroup(j)
    /\ OrderScore(i) = Out[j].score
    /\ candidates[i].node_id = Out[j].node_id

\* input candidate i comes strictly before output candidate j
InBeforeOut(i, j) ==
    \/ InGroup(i) < OutGroup(j)
    \/ /\ InGroup(i) = OutGroup(j)
       /\ \/ OrderScore(i) > Out[j].score
          \/ /\ OrderScore(i) = Out[j].score
             /\ StrLess(candidates[i].node_id, Out[j].node_id)

\* output candidate j may stand directly before output candidate j + 1
OutOrdered(j) ==
    \/ OutGroup(j) < OutGroup(j + 1)
    \/ /\ OutGroup(j) = OutGroup(j + 1)
       /\ \/ Out[j].score > Out[j + 1].score
          \/ /\ Out[j].score = Out[j + 1].score
             /\ ~StrLess(Out[j + 1].node_id, Out[j].node_id)

\* the output is the first Len(Out) elements of the ordered concatenation of
\* the input: it is ordered, holds no candidate more often than the input
\* does, and every candidate it leaves out does not come before its last one
FirstOfConcatenation ==
    /\ \A j \in 1..(Len(Out) - 1) : OutOrdered(j)
    /\ \A j \in DOMAIN Out :
           /\ Cardinality({j2 \in DOMAIN Out :
                  /\ OutGroup(j2) = OutGroup(j) /\ Out[j2].score = Out[j].score
                  /\ Out[j2].node_id = Out[j].node_id})
                <= Cardinality({i \in DOMAIN candidates : SamePlace(i, j)})
           /\ \E i \in DOMAIN candidates :
                  SamePlace(i, j) /\ candidates[i].excerpt = Out[j].excerpt
    /\ \A i \in DOMAIN candidates :
           Cardinality({j \in DOMAIN Out : SamePlace(i, j)})
             < Cardinality({i2 \in DOMAIN candidates :
                   /\ InGroup(i2) = InGroup(i) /\ OrderScore(i2) = OrderScore(i)
                   /\ candidates[i2].node_id = candidates[i].node_id})
               => (Out # <<>> /\ ~InBeforeOut(i, Len(Out)))

\* C23: when the oracle returns at least one score, the output is the first
\* top_k elements of the scored candidates ordered by (-oracle score, node_id)
\* followed by the unscored candidates ordered by (-original score, node_id);
\* every input candidate occurs once in that concatenation and no scored
\* candidate follows an unscored one.
C23_ScoredFirst ==
    (OracleRan /\ ScoredIdx # {}) =>
        /\ result.status = "returned"
        /\ Len(Out) = Min(top_k, Len(candidates))
        /\ FirstOfConcatenation
        /\ \A j \in DOMAIN Out :
               Details(j).rerank_applied => Details(j).rerank_score = Some(Out[j].score)

\* C23 witness: the only scored candidate, second in the input and scored
\* below the other candidate's original score, is first in the output
C23_Witness ==
    /\ OracleRan /\ Len(candidates) = 2 /\ top_k = 2
    /\ ScoredIdx = {2}
    /\ Val(oracle.scores[2]) < candidates[1].score
    /\ Len(Out) = 2
    /\ Out[1].node_id = candidates[2].node_id /\ Details(1).rerank_applied
    /\ Out[2].node_id = candidates[1].node_id /\ ~Details(2).rerank_applied
    /\ candidates[1].node_id # candidates[2].node_id

\* the output is in strategy-"none" order: no candidate is oracle-scored and
\* the output is the start of the input ordered by (-original score, node_id)
InNoneOrder ==
    /\ \A j \in DOMAIN Out : ~Details(j).rerank_applied
    /\ \A j \in 1..(Len(Out) - 1) :
           \/ Out[j].score > Out[j + 1].score
           \/ /\ Out[j].score = Out[j + 1].score
              /\ ~StrLess(Out[j + 1].node_id, Out[j].node_id)
    /\ \A j \in DOMAIN Out :
           Cardinality({j2 \in DOMAIN Out :
               Out[j2].score = Out[j].score /\ Out[j2].node_id = Out[j].node_id})
             <= Cardinality({i \in DOMAIN candidates :
                    candidates[i].score = Out[j].score /\ candidates[i].node_id = Out[j].node_id})
    /\ \A i \in DOMAIN candidates :
           Cardinality({j \in DOMAIN Out :
               Out[j].score = candidates[i].score /\ Out[j].node_id = candidates[i].node_id})
             < Cardinality({i2 \in DOMAIN candidates :
                   /\ candidates[i2].score = candidates[i].score
                   /\ candidates[i2].node_id = candidates[i].node_id})
               => /\ Out # <<>>
                  /\ \/ candidates[i].score < Out[Len(Out)].score
                     \/ /\ candidates[i].score = Out[Len(Out)].score
                        /\ ~StrLess(candidates[i].node_id, Out[Len(Out)].node_id)

\* C24: under llm or bge_reranker, when the oracle yields no score for any
\* candidate, the candidates are returned in strategy-"none" order, truncated
\* to top_k, each with rerank_strategy "none", rerank_fallback true,
\* rerank_fallback_reason "rerank_no_text" and rerank_applied false.
C24_NoScores ==
    (OracleRan /\ ScoredIdx = {}) =>
        /\ result.status = "returned"
        /\ Len(Out) = Min(top_k, Len(candidates))
        /\ InNoneOrder
        /\ \A i \in DOMAIN Out :
               /\ Details(i).rerank_strategy = S_none
               /\ Details(i).rerank_fallback = TRUE
               /\ Details(i).rerank_fallback_reason = Some("rerank_no_text")
               /\ Details(i).rerank_applied = FALSE

\* C24 witness: the reranker was given text nodes, returned none of them, and
\* the two candidates came back reordered by their original scores
C24_Witness ==
    /\ OracleRan /\ ScoredIdx = {} /\ TextNodes(candidates) = {1, 2}
    /\ top_k = 2 /\ Len(candidates) = 2
    /\ candidates[1].score < candidates[2].score
    /\ Len(Out) = 2 /\ Out[1].score > Out[2].score
    /\ Details(1).rerank_fallback_reason = Some("rerank_no_text")

\* C25: in every returned list the candidate at 1-based position i has
\* rerank_rank = i, and rerank_strategy, rerank_model, rerank_fallback and
\* rerank_fallback_reason are the same on all candidates of the list.
C25_RanksAndLabels ==
    (Done /\ result.status = "returned") =>
        /\ \A i \in DOMAIN Out : Details(i).rerank_rank = i
        /\ \A i, j \in DOMAIN Out :
               /\ Details(i).rerank_strategy = Details(j).rerank_strategy
               /\ Details(i).rerank_model = Details(j).rerank_model
               /\ Details(i).rerank_fallback = Details(j).rerank_fallback
               /\ Details(i).rerank_fallback_reason = Details(j).rerank_fallback_reason

\* C25 witness: a scored and an unscored candidate, swapped by the rerank,
\* carry ranks 1 and 2 and the same strategy label
C25_Witness ==
    /\ OracleRan /\ ScoredIdx = {2} /\ Len(candidates) = 2 /\ Len(Out) = 2
    /\ Out[1].node_id = candidates[2].node_id
    /\ Out[1].node_id # Out[2].node_id
    /\ Details(1).rerank_rank = 1 /\ Details(2).rerank_rank = 2
    /\ Details(1).rerank_applied /\ ~Details(2).rerank_applied
    /\ Details(1).rerank_strategy = S_bge /\ Details(2).rerank_strategy = S_bge

\* C26 (as claimed): in every rerank output candidate rerank_fallback = true
\* implies a non-empty rerank_fallback_reason, also for the fallback caused by
\* an unknown strategy string, and rerank_fallback = false implies the reason
\* is null.
C26_FallbackReason ==
    (Done /\ result.status = "returned") =>
        \A i \in DOMAIN Out :
            /\ Details(i).rerank_fallback = TRUE =>
                   /\ Details(i).rerank_fallback_reason # None
                   /\ Val(Details(i).rerank_fallback_reason) # ""
            /\ Details(i).rerank_fallback = FALSE =>
                   Details(i).rerank_fallback_reason = None

\* the text of the node _run_rerank builds for candidate i; <<>> when none is built
SentText(i) == _extract_text(candidates[i])[1]

\* a str field that is present and not blank
HasText(v) == v # None /\ \E j \in DOMAIN Val(v) : ~IsSpace(Val(v)[j])

\* the meta text keys in the order they are scanned
MetaKeyOrder == <<"text", "content", "node_text", "chunk_text", "raw_text", "page_text">>

\* C27: the text sent to the oracle for a candidate is its excerpt when that
\* is non-blank, otherwise the first non-blank value among the meta keys text,
\* content, node_text, chunk_text, raw_text, page_text; a candidate with
\* neither is left out of the oracle call, has rerank_applied = false and
\* rerank_score = null, keeps its original score, and is still in the output.
C27_OracleText ==
    (NonTrivialCall /\ result.status = "returned") =>
        /\ \A i \in DOMAIN candidates :
            LET c == candidates[i]
            IN  /\ HasText(c.excerpt) => SentText(i) = Val(c.excerpt)
                /\ ~HasText(c.excerpt) =>
                       \A k \in DOMAIN MetaKeyOrder :
                           (/\ HasText(c.meta[MetaKeyOrder[k]])
                            /\ \A j \in 1..(k - 1) : ~HasText(c.meta[MetaKeyOrder[j]]))
                               => SentText(i) = Val(c.meta[MetaKeyOrder[k]])
                /\ (~HasText(c.excerpt)
                       /\ \A k \in DOMAIN MetaKeyOrder : ~HasText(c.meta[MetaKeyOrder[k]]))
                       => (SentText(i) = <<>> /\ i \notin TextNodes(candidates)
                             /\ i \notin ScoredIdx)
        /\ Len(Out) = Min(top_k, Len(candidates))
        /\ \A j \in DOMAIN Out :
               \E i \in DOMAIN candidates :
                   /\ Out[j].node_id = candidates[i].node_id
                   /\ Out[j].excerpt = candidates[i].excerpt
                   /\ Out[j].meta = candidates[i].meta
                   /\ SentText(i) = <<>> =>
                          /\ Details(j).rerank_applied = FALSE
                          /\ Details(j).rerank_score = None
                          /\ Out[j].score = candidates[i].score
        /\ top_k >= Len(candidates) =>
               \A i \in DOMAIN candidates :
                   \E j \in DOMAIN Out :
                       /\ Out[j].node_id = candidates[i].node_id
                       /\ Out[j].excerpt = candidates[i].excerpt

\* C27 witness: the reranker scored a candidate whose text came from meta
\* node_text, after a blank excerpt and a blank meta content, and left out a
\* candidate without text, which is second in the output with its own score
C27_Witness ==
    /\ OracleRan /\ Len(candidates) = 2 /\ top_k = 2 /\ Len(Out) = 2
    /\ candidates[1].excerpt = None /\ SentText(1) = <<>>
    /\ candidates[2].excerpt = Some(<<" ">>)
    /\ candidates[2].meta["content"] = Some(<<" ">>)
    /\ SentText(2) = <<"b">>
    /\ ScoredIdx = {2}
    /\ Details(1).rerank_applied /\ Out[1].meta = candidates[2].meta
    /\ ~Details(2).rerank_applied /\ Details(2).rerank_score = None
    /\ Out[2].excerpt = None /\ Out[2].score = candidates[1].score

----------------------------------------------------------------------------
(* Properties of the buckets of group_evidence_hits *)

\* the input positions of the hits that name node n under bucket (pr, key)
Occurrences(pr, key, n) ==
    {i \in DOMAIN hits :
        /\ hits[i].source = pr[1] /\ hits[i].document_id = pr[2]
        /\ PageKey(hits[i]) = key /\ hits[i].node_id = n}

FirstOccurrence(pr, key, n) ==
    CHOOSE i \in Occurrences(pr, key, n) : \A j \in Occurrences(pr, key, n) : i <= j

\* the (pair, page key, position) triples of the output tree
BucketSlots ==
    UNION {UNION {{<<pr, key, i>> : i \in DOMAIN PagesOfPair(pr)[key]} :
                      key \in DOMAIN PagesOfPair(pr)} : pr \in Pairs}

\* C28: no (source, document, page) bucket holds a node_id twice, each bucket
\* lists its node ids in the order of their first occurrence in the input, a
\* repeat inside a bucket is counted in deduped_node_count and not emitted,
\* and an occurrence under another source, document or page is not counted.
C28_BucketDedup ==
    Grouped =>
        /\ \A pr \in Pairs : \A key \in DOMAIN PagesOfPair(pr) :
            LET bucket == PagesOfPair(pr)[key]
            IN  /\ \A i, j \in DOMAIN bucket : bucket[i] = bucket[j] => i = j
                /\ \A i \in DOMAIN bucket : Occurrences(pr, key, bucket[i]) # {}
                /\ \A i, j \in DOMAIN bucket :
                       i < j => FirstOccurrence(pr, key, bucket[i])
                                    < FirstOccurrence(pr, key, bucket[j])
        /\ Stats.deduped_node_count =
               SumOver([sl \in BucketSlots |->
                           Cardinality(Occurrences(sl[1], sl[2], PagesOfPair(sl[1])[sl[2]][sl[3]])) - 1],
                       BucketSlots)

\* C28 witness: n2 hit twice on page 1 and once on page 2 of the same
\* document is listed once under each page, with one repeat counted
C28_Witness ==
    /\ Grouped /\ Len(hits) = 3
    /\ \A i \in DOMAIN hits :
           hits[i].node_id = "n2" /\ hits[i].source = "keyword" /\ hits[i].document_id = "doc1"
    /\ hits[1].page = Some(1) /\ hits[2].page = Some(1) /\ hits[3].page = Some(2)
    /\ PagesOfPair(<<"keyword", "doc1">>) = [k \in {"1", "2"} |-> <<"n2">>]
    /\ Stats.deduped_node_count = 1

----------------------------------------------------------------------------
(* Properties of the offset ranges of normalize_offsets_to_page_local *)

\* both offsets of the node are ints and form a half-open range 0 <= start < end
HalfOpen(d) ==
    /\ d.start_offset # None /\ d.end_offset # None
    /\ "int" \in DOMAIN Val(d.start_offset) /\ "int" \in DOMAIN Val(d.end_offset)
    /\ 0 <= Val(d.start_offset).int
    /\ Val(d.start_offset).int < Val(d.end_offset).int

\* C29 (as claimed): for every converted node whose input offsets satisfy
\* 0 <= start_offset < end_offset, the output offsets satisfy
\* 0 <= start_offset' < end_offset'.
C29_RangeKept ==
    OffsetsDone =>
        \A i \in DOMAIN node_dicts :
            (Indexed(node_dicts[i]) /\ HalfOpen(node_dicts[i])) => HalfOpen(out_nodes[i])

----------------------------------------------------------------------------
(* The records of rerank and normalize_offsets_to_page_local as objects:
   a dict, a Candidate and a list are objects with an identity, a variable or
   a field holds a reference to one, and an assignment d[k] = v writes into
   the object d refers to *)

MaxObjs == 2

\* a reference to the object with this id
Ref(id) == [ref |-> id]

\* a new object: the heap is the sequence of the objects' contents, by id
Alloc(h, obj) == [heap |-> Append(h, obj), ref |-> Len(h) + 1]

\* d[k] = v
Store(h, id, k, v) == [h EXCEPT ![id] = DictPut(@, k, v)]

\* lst.append(x)
ListAppend(h, lst, id) == [h EXCEPT ![lst].items = Append(@, Ref(id))]

\* variant of dict_copy that hands back the dict it was given
dict_copy_Alias(h, src) == [heap |-> h, ref |-> src]

\* dict(x): a new dict with the items of x
dict_copy(h, src) == Alloc(h, h[src])

\* x.get("meta_data") or x.get("meta"): the first of the two that is a
\* non-empty dict, None when neither is
MetaSource(h, v) ==
    IF v.meta_data # None /\ DOMAIN h[Val(v.meta_data).ref] # {} THEN v.meta_data
    ELSE IF v.meta # None /\ DOMAIN h[Val(v.meta).ref] # {} THEN v.meta
    ELSE None

\* the body of the loop of normalize_offsets_to_page_local for the node dict n:
\* the heap after it and the dict it appends to out
NormalizeObj(h, n, index) ==
    LET c == dict_copy(h, n)
        d == c.ref
        v == c.heap[d]
        page_i == IF v.page = None THEN None ELSE PyInt(Val(v.page))
    IN  IF page_i = None THEN c
        ELSE IF Val(page_i) \notin DOMAIN index THEN c
        ELSE LET base == index[Val(page_i)]
                 s == _coerce_int(v.start_offset)
                 e == _coerce_int(v.end_offset)
                 h1 == IF s # None
                       THEN Store(c.heap, d, "start_offset", Some(IntVal(Rebase(Val(s), base))))
                       ELSE c.heap
                 h2 == IF e # None
                       THEN Store(h1, d, "end_offset", Some(IntVal(Rebase(Val(e), base))))
                       ELSE h1
                 src == MetaSource(h2, h2[d])
                 m == IF src = None THEN Alloc(h2, <<>>) ELSE dict_copy(h2, Val(src).ref)
                 h3 == [m.heap EXCEPT ![m.ref] = SetDefault(@, "offset_mode", "page_local")]
             IN  [heap |-> Store(h3, d, "meta_data", Some(Ref(m.ref))), ref |-> d]

\* for n in node_dicts: ...; out.append(d)
RECURSIVE NormalizeLoop(_, _, _, _)
NormalizeLoop(h, out, todo, index) ==
    IF todo = <<>> THEN h
    ELSE LET r == NormalizeObj(h, Head(todo).ref, index)
         IN  NormalizeLoop(ListAppend(r.heap, out, r.ref), out, Tail(todo), index)

\* normalize_offsets_to_page_local on the list object node_list
normalize_offsets_objs(h, node_list, markdown) ==
    LET out == Alloc(h, [items |-> <<>>])
    IN  [heap |-> NormalizeLoop(out.heap, out.ref, h[node_list].items, PageStartOf(markdown)),
         ref |-> out.ref]

\* the Candidate an object stands for: its dict fields read through
CandValue(h, id) ==
    [h[id] EXCEPT !.score_details = h[@.ref], !.meta = h[@.ref]]

\* cand.meta or {}: a meta dict without str values under the text keys is
\* the empty dict
EmptyMeta(mt) == \A k \in DOMAIN mt : mt[k] = None

\* the body of the loop of _apply_rerank_result for the item at position rank:
\* the heap after it and the Candidate it appends to out
ApplyObj(h, item, rank, ret, cand_id) ==
    LET details == IF DOMAIN h[h[cand_id].score_details.ref] = {} THEN Alloc(h, <<>>)
                   ELSE dict_copy(h, h[cand_id].score_details.ref)
        rc == RerankedCandidate(item, rank, ret.scores, ret.strategy, ret.model,
                                ret.fallback, ret.fallback_reason, "rerank")
        h1 == [details.heap EXCEPT ![details.ref] = rc.score_details]
        meta == IF EmptyMeta(h1[h1[cand_id].meta.ref]) THEN Alloc(h1, NoMeta)
                ELSE dict_copy(h1, h1[cand_id].meta.ref)
    IN  Alloc(meta.heap, [rc EXCEPT !.score_details = Ref(details.ref),
                                    !.meta = Ref(meta.ref)])

\* for rank, (idx, cand) in enumerate(ordered, start=1): ...; out.append(...)
RECURSIVE ApplyLoop(_, _, _, _, _)
ApplyLoop(h, out, ret, cand_ids, rank) ==
    IF rank > Len(ret.ordered) \/ rank > ret.top_k THEN h
    ELSE LET r == ApplyObj(h, ret.ordered[rank], rank, ret, cand_ids[ret.ordered[rank].idx])
         IN  ApplyLoop(ListAppend(r.heap, out, r.ref), out, ret, cand_ids, rank + 1)

\* rerank on the list object cand_list: ref = 0 when an exception escapes
rerank_objs(h, cand_list, st, k, mdl, orc) ==
    LET cand_ids == [i \in DOMAIN h[cand_list].items |-> h[cand_list].items[i].ref]
        cands == [i \in DOMAIN cand_ids |-> CandValue(h, cand_ids[i])]
        ret == rerank_return(cands, st, k, mdl, orc)
        out == Alloc(h, [items |-> <<>>])
    IN  IF ret.status = "raised" THEN [heap |-> h, ref |-> 0]
        ELSE IF ret.status = "empty" THEN out
        ELSE [heap |-> ApplyLoop(out.heap, out.ref, ret, cand_ids, 1), ref |-> out.ref]

\* the node dicts and candidates the caller builds: a node on page 1, a node
\* with a legacy meta dict, a node with an empty meta_data dict, a node without
\* page; a candidate with an excerpt, one with meta texts, one without text
FrameNodes ==
    {n \in NodeInputs :
        \/ n.page = None
        \/ n.meta # None
        \/ n.meta_data # None
        \/ n.end_offset = Some(IntVal(5))}
FrameCands ==
    {c \in CandidateInputs : c.score = 2} \cup {Cand(<<"n", "1", "0">>, 1, Some(<<"a">>))}

\* markdown texts: empty, and a page 1 or page 2 marker after some text
FrameMarkdowns ==
    {<<>>} \cup {p.text \o q.text : p \in {x \in TextParts : x.page = None},
                                  q \in {x \in TextParts : x.page \in {Some(1), Some(2)}}}

FrameStrategies == {Some(S_none), Some(S_bge), Some(<<"f", "o", "o">>)}

NoCallYet == ret_nodes = None /\ ret_cands = None

\* the caller builds a node dict (and its meta dicts) and appends it to node_dicts
NewNodeDict ==
    /\ pc = "input" /\ NoCallYet
    /\ Len(heap[in_nodes].items) + Len(heap[in_cands].items) < MaxObjs
    /\ \E n \in FrameNodes :
        LET a == IF n.meta_data # None THEN Alloc(heap, Val(n.meta_data))
                 ELSE [heap |-> heap, ref |-> 0]
            b == IF n.meta # None THEN Alloc(a.heap, Val(n.meta))
                 ELSE [heap |-> a.heap, ref |-> 0]
            d == Alloc(b.heap,
                       [n EXCEPT !.meta_data = IF n.meta_data # None THEN Some(Ref(a.ref)) ELSE None,
                                 !.meta = IF n.meta # None THEN Some(Ref(b.ref)) ELSE None])
        IN  heap' = ListAppend(d.heap, in_nodes, d.ref)
    /\ UNCHANGED <<pc, heap_in, in_nodes, in_cands, ret_nodes, ret_cands>>
    /\ UNCHANGED <<candidates, strategy, top_k, model, oracle, result>>
    /\ UNCHANGED <<groupVars, offsetVars, recallVars, replayVars>>

\* the caller builds a Candidate (and its two dicts) and appends it to candidates
NewCandidate ==
    /\ pc = "input" /\ NoCallYet
    /\ Len(heap[in_nodes].items) + Len(heap[in_cands].items) < MaxObjs
    /\ \E c \in FrameCands :
        LET a == Alloc(heap, c.score_details)
            b == Alloc(a.heap, c.meta)
            d == Alloc(b.heap, [c EXCEPT !.score_details = Ref(a.ref), !.meta = Ref(b.ref)])
        IN  heap' = ListAppend(d.heap, in_cands, d.ref)
    /\ UNCHANGED <<pc, heap_in, in_nodes, in_cands, ret_nodes, ret_cands>>
    /\ UNCHANGED <<candidates, strategy, top_k, model, oracle, result>>
    /\ UNCHANGED <<groupVars, offsetVars, recallVars, replayVars>>

\* one call normalize_offsets_to_page_local(node_dicts=, markdown=)
CallNormalize ==
    /\ ret_nodes = None
    /\ \E markdown \in FrameMarkdowns :
        LET r == normalize_offsets_objs(heap, in_nodes, markdown)
        IN  heap' = r.heap /\ ret_nodes' = Some(r.ref)
    /\ heap_in' = IF NoCallYet THEN heap ELSE heap_in
    /\ pc' = "done"
    /\ UNCHANGED <<in_nodes, in_cands, ret_cands>>
    /\ UNCHANGED <<candidates, strategy, top_k, model, oracle, result>>
    /\ UNCHANGED <<groupVars, offsetVars, recallVars, replayVars>>

\* one call rerank(query=, candidates=, strategy=, top_k=)
CallRerank ==
    /\ ret_cands = None
    /\ \E st \in FrameStrategies, k \in {1, 2} :
        LET cands == [i \in DOMAIN heap[in_cands].items |->
                         CandValue(heap, heap[in_cands].items[i].ref)]
        IN  \E orc \in IF ReachesOracle(cands, st, k) THEN OracleOutcomes(cands)
                       ELSE {NoOracle(cands)} :
                LET r == rerank_objs(heap, in_cands, st, k, None, orc)
                IN  heap' = r.heap /\ ret_cands' = Some(r.ref)
    /\ heap_in' = IF NoCallYet THEN heap ELSE heap_in
    /\ pc' = "done"
    /\ UNCHANGED <<in_nodes, in_cands, ret_nodes>>
    /\ UNCHANGED <<candidates, strategy, top_k, model, oracle, result>>
    /\ UNCHANGED <<groupVars, offsetVars, recallVars, replayVars>>

NextFrame == NewNodeDict \/ NewCandidate \/ CallNormalize \/ CallRerank

SpecFrame == Init /\ [][NextFrame]_vars

----------------------------------------------------------------------------
(* Properties of the objects *)

\* the ids of the records in a list object
ItemIds(lst) == {heap[lst].items[i].ref : i \in DOMAIN heap[lst].items}

\* the objects that existed when the first call was made
OldIds == DOMAIN heap_in

\* C30: after a call of rerank or normalize_offsets_to_page_local, on any
\* path, every object that existed before it (the input list, each input
\* Candidate and its score_details and meta dicts, each input node dict and
\* its metadata dicts) has the contents it had, and the returned list and
\* every record in it are objects that did not exist before.
C30_InputsUnchanged ==
    ~NoCallYet =>
        /\ \A id \in OldIds : heap[id] = heap_in[id]
        /\ ret_nodes # None =>
               /\ Val(ret_nodes) \notin OldIds
               /\ ItemIds(Val(ret_nodes)) \cap OldIds = {}
               /\ Len(heap[Val(ret_nodes)].items) = Len(heap[in_nodes].items)
        /\ (ret_cands # None /\ ret_cands # Some(0)) =>
               /\ Val(ret_cands) \notin OldIds
               /\ ItemIds(Val(ret_cands)) \cap OldIds = {}

\* C30 witness: both calls were made; the returned node dict carries rebased
\* offsets and an offset_mode marker and the returned Candidate a rerank
\* rank, while the input node dict and the input Candidate's score_details
\* are as they were built
C30_Witness ==
    /\ ret_nodes # None /\ ret_cands # None /\ ret_cands # Some(0)
    /\ Len(heap[in_nodes].items) = 1 /\ Len(heap[in_cands].items) = 1
    /\ Len(heap[Val(ret_nodes)].items) = 1 /\ Len(heap[Val(ret_cands)].items) = 1
    /\ LET n == heap[heap[in_nodes].items[1].ref]
           d == heap[heap[Val(ret_nodes)].items[1].ref]
           c == heap[heap[in_cands].items[1].ref]
           o == heap[heap[Val(ret_cands)].items[1].ref]
       IN  /\ n.meta_data = None /\ d.meta_data # None
           /\ "offset_mode" \in DOMAIN heap[Val(d.meta_data).ref]
           /\ n.start_offset # d.start_offset
           /\ o.stage = "rerank" /\ c.stage = "fused"
           /\ "rerank_rank" \in DOMAIN heap[o.score_details.ref]
           /\ "rerank_rank" \notin DOMAIN heap[c.score_details.ref]
           /\ o.score_details.ref # c.score_details.ref

====
